---- MODULE Spec2Model ----
(***************************************************************************)
(* The commit workflow of rust-auto-commit (src/commands/commit.rs) with   *)
(* the collaborators it calls: the repository helpers of src/utils/git.rs, *)
(* the lazily cached configuration of src/commands/config.rs and the       *)
(* provider mapping of src/engine/mod.rs.                                  *)
(*                                                                         *)
(* A text is a sequence of tokens (short strings), so that str::contains   *)
(* and str::replace are computed and not assumed.  A path is an index into *)
(* PathNames, which lists the file names in byte order, so Vec::sort on    *)
(* paths is the order on the indices.                                      *)
(***************************************************************************)
EXTENDS Integers, Sequences, FiniteSets, TLC

VARIABLES
    pc,               \* position inside execute_commit
    result,           \* "none" while running, then "Ok" or the Error variant
    is_stage_all,     \* parameter of the current execute_commit call
    skip_confirmation,\* parameter (cli.yes)
    extra_args,       \* parameter (cli.extra_args): sequence of texts
    key_values,       \* the KEY=VALUE arguments of `config set`: sequence of texts
    context,          \* parameter (cli.context, after unwrap_or_default): a text
    full_gitmoji_spec,\* parameter (cli.fgm)
    overflow_checks,  \* the build: TRUE when arithmetic overflow panics (debug)
    detail,           \* what the Error variant of result carries (Option)
    idx,              \* repository: index status of each path
    wt,               \* repository: working tree status of each path
    ocoignore,        \* lines of .opencommitignore (empty when the file is absent)
    disk,             \* configuration as the file and the environment give it
    disk_later,       \* what they give once someone else changed them (Option)
    loads,            \* the calls of Config::load so far (history)
    CONFIG,           \* static CONFIG: Option<Config>
    staged_files,     \* local: Vec<String>
    changed_files,    \* local of the "nothing staged" block
    diff,             \* local: the diff text, by the paths it shows (Option)
    config,           \* local: the Config of this call (Option: None before the load)
    engine_out,       \* text the engine returned in this attempt
    commit_message,   \* local
    remotes,          \* local: lines of `git remote`
    spinner,          \* what the ProgressBar locals went through (history)
    obs               \* observations of the run (history, never read by the code)

vars == << pc, result, detail, is_stage_all, skip_confirmation, extra_args, key_values,
           context, full_gitmoji_spec, overflow_checks, idx, wt,
           ocoignore, disk, CONFIG, staged_files, changed_files, diff, config,
           engine_out, commit_message, remotes, spinner, disk_later, loads,
           obs >>

-----------------------------------------------------------------------------
(* Bounds *)

\* Number of paths of the repository (a prefix of PathNames).
NumPaths == 3
\* Regenerations the user accepts in one run, at most.
MaxRegen == 2

\* The number of KEY=VALUE arguments of `config set`
MaxPairs == 3

-----------------------------------------------------------------------------
(* Text *)

\* s has pat at position i
MatchAt(s, pat, i) ==
    /\ i + Len(pat) - 1 <= Len(s)
    /\ \A k \in 1..Len(pat) : s[i + k - 1] = pat[k]

\* str::contains: the empty pattern is contained in every text
Contains(s, pat) == \E i \in 1..(Len(s) + 1) : MatchAt(s, pat, i)

EndsWith(s, pat) ==
    Len(pat) <= Len(s) /\ MatchAt(s, pat, Len(s) - Len(pat) + 1)

RECURSIVE ReplaceFrom(_, _, _, _)
\* str::replace from position i on: every non-overlapping match, left to
\* right; the empty pattern matches at every character boundary.
ReplaceFrom(s, pat, to, i) ==
    IF pat = << >>
    THEN IF i > Len(s) THEN to
         ELSE to \o << s[i] >> \o ReplaceFrom(s, pat, to, i + 1)
    ELSE IF i > Len(s) THEN << >>
    ELSE IF MatchAt(s, pat, i)
         THEN to \o ReplaceFrom(s, pat, to, i + Len(pat))
         ELSE << s[i] >> \o ReplaceFrom(s, pat, to, i + 1)

Replace(s, pat, to) == ReplaceFrom(s, pat, to, 1)

\* str::replacen(pat, to, 1): the first match only
Replacen1(s, pat, to) ==
    IF \E i \in 1..Len(s) : MatchAt(s, pat, i)
    THEN LET i == CHOOSE i \in 1..Len(s) :
                    MatchAt(s, pat, i) /\ \A j \in 1..(i - 1) : ~MatchAt(s, pat, j)
         IN  SubSeq(s, 1, i - 1) \o to \o SubSeq(s, i + Len(pat), Len(s))
    ELSE s

\* Vec::remove(i)
RemoveAt(seq, i) == SubSeq(seq, 1, i - 1) \o SubSeq(seq, i + 1, Len(seq))

\* The elements of the set S of integers as an ascending sequence (Vec::sort)
RECURSIVE SortedSeq(_)
SortedSeq(S) ==
    IF S = {} THEN << >>
    ELSE LET m == CHOOSE x \in S : \A y \in S : x <= y
         IN << m >> \o SortedSeq(S \ {m})

Range(seq) == { seq[i] : i \in 1..Len(seq) }

-----------------------------------------------------------------------------
(* Repository: src/utils/git.rs *)

\* File names in byte order ("C" sorts before "a").
PathNames ==
    << << "Cargo", ".lock" >>,
       << "a", ".rs" >>,
       << "logo", ".png" >>,
       << "package", "-lock.", "json" >>,
       << "z", ".rs" >> >>

Paths == 1..NumPaths

\* git2 status flags of a path: its index side and its working tree side.
IndexStatus == { "none", "new", "modified", "deleted", "renamed", "typechange" }
WtStatus == { "none", "modified", "new", "deleted" }

\* One glob line of an ignore file: "*<lit>" (suffix) or "*<lit>*" (infix),
\* whitelisting when negated ("!...").
Glob(kind, lit, neg) == [ kind |-> kind, lit |-> lit, neg |-> neg ]

GlobMatches(g, name) ==
    IF g.kind = "suffix" THEN EndsWith(name, g.lit) ELSE Contains(name, g.lit)

\* get_opencommit_ignore: the two default lines, then the lines of
\* .opencommitignore when the file exists.
get_opencommit_ignore(lines) ==
    << Glob("infix", << "-lock." >>, FALSE),
       Glob("suffix", << ".lock" >>, FALSE) >> \o lines

\* Gitignore::matched(path, false).is_ignore(): the last matching line decides.
is_ignore(ign, p) ==
    LET hits == { i \in 1..Len(ign) : GlobMatches(ign[i], PathNames[p]) }
    IN  hits # {} /\ ~ign[CHOOSE i \in hits : \A j \in hits : j <= i].neg

\* Mutant of get_staged_files: the ignore rules are not asked
get_staged_files_NoIgnore(ix, lines) ==
    SortedSeq({ p \in Paths : ix[p] \in { "new", "modified", "renamed", "typechange" } })

get_staged_files(ix, lines) ==
    LET ign == get_opencommit_ignore(lines)
    IN  SortedSeq({ p \in Paths :
            /\ ix[p] \in { "new", "modified", "renamed", "typechange" }
            /\ ~is_ignore(ign, p) })

\* Mutant of get_changed_files: WT_DELETED counts as changed
get_changed_files_Deleted(w, lines) ==
    LET ign == get_opencommit_ignore(lines)
    IN  SortedSeq({ p \in Paths :
            /\ w[p] \in { "modified", "new", "deleted" }
            /\ ~is_ignore(ign, p) })

get_changed_files(w, lines) ==
    LET ign == get_opencommit_ignore(lines)
    IN  SortedSeq({ p \in Paths :
            /\ w[p] \in { "modified", "new" }
            /\ ~is_ignore(ign, p) })

\* Mutant of git_add_index: index.write() is left out
git_add_index_NoWrite(ix, w, files) == ix

\* Mutant of git_add_index: every path with a change is added (`git add -A`)
git_add_index_AllChanged(ix, w, files) ==
    [ p \in Paths |->
        IF w[p] = "none" THEN ix[p]
        ELSE IF ix[p] = "none" THEN (IF w[p] = "new" THEN "new" ELSE "modified")
        ELSE ix[p] ]

\* git_add: index.add_path for every file, then index.write(): the working
\* tree content of the file becomes its index entry.
git_add_index(ix, w, files) ==
    [ p \in Paths |->
        IF p \notin Range(files) THEN ix[p]
        ELSE IF ix[p] = "none" THEN (IF w[p] = "new" THEN "new" ELSE "modified")
        ELSE ix[p] ]

git_add_wt(w, files) ==
    [ p \in Paths |-> IF p \in Range(files) THEN "none" ELSE w[p] ]

\* The lock-file and image filter of get_diff.
DiffDenylist ==
    { << ".lock" >>, << "-lock." >>, << ".svg" >>, << ".png" >>,
      << ".jpg" >>, << ".jpeg" >>, << ".webp" >>, << ".gif" >> }

filtered_files(files) ==
    SelectSeq(files, LAMBDA p : \A d \in DiffDenylist : ~Contains(PathNames[p], d))

\* get_diff: `git diff --staged <filtered files>`.  The text holds the staged
\* change of every path of the index that the path arguments select; with
\* no path argument git selects every path.
get_diff(ix, files) ==
    LET args == filtered_files(files)
        shown == { p \in Paths :
                        /\ ix[p] # "none"
                        /\ (args = << >> \/ p \in Range(args)) }
    IN  [ args  |-> args,
          shown |-> shown,
          added |-> { p \in shown : ix[p] = "new" } ]

-----------------------------------------------------------------------------
(* Configuration: src/commands/config.rs *)

\* Option<T>: None is the empty sequence, Some(x) is << x >>
None == << >>
Some(x) == << x >>

\* Provider identifiers a configuration may name (OCO_AI_PROVIDER is free text
\* when it comes from the environment or the file).
ProviderIds == { "openai", "ollama", "Ollama", "test", "none" }

\* str::to_lowercase on the identifiers above
to_lowercase(s) == IF s = "Ollama" THEN "ollama" ELSE s

\* Placeholder texts: the default "$msg", and one of two tokens
Placeholders == { << "$msg" >>, << "$", "m" >> }

\* Config::default (the fields execute_commit and the prompt read)
Config_default ==
    [ api_key |-> "None",
      tokens_max_input |-> 40960,
      tokens_max_output |-> 4096,
      description |-> FALSE,
      emoji |-> FALSE,
      language |-> "en",
      message_template_placeholder |-> << "$msg" >>,
      ai_provider |-> "openai",
      one_line_commit |-> FALSE,
      gitpush |-> TRUE,
      why |-> FALSE ]

\* Mutant of Config_load: the file and the environment are read on every call
Config_load_NoCache(cache, ondisk) == ondisk

\* Config::load: the cached value when there is one, else the value read from
\* the file and the environment, which is then cached.
Config_load(cache, ondisk) == IF cache # None THEN cache[1] ELSE ondisk

\* One call of Config::load: what it returned, whether it read the file and
\* the environment, and what they held at the time
Loaded(cache, ondisk) ==
    [ returned |-> Config_load(cache, ondisk),
      read     |-> cache = None,
      ondisk   |-> ondisk ]

\* AiProvider::from_str: the variant, or "" for UnsupportedAiProvider
AiProvider_from_str(s) ==
    IF to_lowercase(s) \in { "openai", "anthropic", "azure", "ollama", "gemini",
                             "flowise", "groq", "mistral", "mlx", "deepseek",
                             "test" }
    THEN to_lowercase(s) ELSE ""

\* Mutant of api_key_missing: only the default provider is checked
api_key_missing_OpenAiOnly(cfg) ==
    cfg.api_key = "None" /\ cfg.ai_provider = "openai"

\* The API key check of execute_commit
api_key_missing(cfg) ==
    cfg.api_key = "None" /\ cfg.ai_provider # "ollama" /\ cfg.ai_provider # "test"

-----------------------------------------------------------------------------------------------------------------------------------------------------
(* Prompt: src/prompts.rs, src/i18n *)

Message(role, content) == [ role |-> role, content |-> content ]

\* get_translation: the data of a language code or alias; pt_br is declared
\* as well, "xx" stands for a language that has no alias
get_translation(language) ==
    IF language \in { "en", "english", "English" }
    THEN [ err |-> "",
           local_language |-> << "english" >>,
           commit_fix |-> << "fix", "(server.ts):",
                             "change port variable case from lowercase port to uppercase PORT" >>,
           commit_feat |-> << "feat", "(server.ts):",
                              "add support for process.env.PORT environment variable" >>,
           commit_description |-> << "The port variable is now named PORT" >> ]
    ELSE [ err |-> "InvalidConfiguration" ]

IDENTITY == << "You are to act as an author of a commit message in git." >>
GITMOJI_HELP == << "Use GitMoji convention to preface the commit.", "help" >>
FULL_GITMOJI_SPEC ==
    << "Use GitMoji convention to preface the commit.", "all", "options" >>
CONVENTIONAL_COMMIT_KEYWORDS ==
    << "Do not preface the commit with anything, except for the conventional commit keywords" >>

\* The example diff of the prompt
INIT_DIFF ==
    << "diff --git a/src/server.ts b/src/server.ts", "-const port = 7799;",
       "+const", "PORT", "= 7799;", "+app.listen(process.env.PORT || PORT" >>

\* Mutant of commit_convention: the abbreviated legend whatever the flag
commit_convention_AlwaysHelp(cfg, fgm) ==
    IF cfg.emoji THEN GITMOJI_HELP ELSE CONVENTIONAL_COMMIT_KEYWORDS

\* Lines 133-141: the convention clause of the system message
commit_convention(cfg, fgm) ==
    IF cfg.emoji
    THEN (IF fgm THEN FULL_GITMOJI_SPEC ELSE GITMOJI_HELP)
    ELSE CONVENTIONAL_COMMIT_KEYWORDS

\* Mutant of user_context: the context is not tested for emptiness
user_context_Always(ctx) ==
    << "Additional context provided by the user: <context>" >> \o ctx
    \o << "</context>", "Consider this context" >>

\* Lines 158-162: the clause of the system message for the text of
\* --context; no clause for an empty text
user_context(ctx) ==
    IF ctx # << >>
    THEN << "Additional context provided by the user: <context>" >> \o ctx
         \o << "</context>", "Consider this context" >>
    ELSE << >>

\* get_main_commit_prompt: the system message, the example diff as a user
\* message, the example answer as an assistant message
get_main_commit_prompt(cfg, fgm, ctx) ==
    LET translation == get_translation(cfg.language)
        description_guidance ==
            IF cfg.description
            THEN << "Add a short description of WHY the changes are done" >>
            ELSE << "Don't add any descriptions to the commit, only commit message." >>
        one_line_guidance ==
            IF cfg.one_line_commit
            THEN << "Craft a concise commit message that encapsulates all changes made" >>
            ELSE << >>
        system_content ==
            IDENTITY
            \o << "Your mission is to create clean and comprehensive commit messages" >>
            \o (IF cfg.why THEN << "and WHY the changes were done" >> ELSE << >>)
            \o << "I'll send you an output of 'git diff --staged' command" >>
            \o commit_convention(cfg, fgm) \o description_guidance \o one_line_guidance
            \o << "Use the present tense." >> \o translation.local_language
            \o user_context(ctx)
        consistency_content ==
            IF cfg.emoji
            THEN << ":bug:" >> \o Replacen1(translation.commit_fix, << "fix" >>, << >>)
                 \o << ":sparkles:" >>
                 \o Replacen1(translation.commit_feat, << "feat" >>, << >>)
                 \o (IF cfg.description THEN translation.commit_description ELSE << >>)
            ELSE translation.commit_fix \o translation.commit_feat
                 \o (IF cfg.description THEN translation.commit_description ELSE << >>)
    IN  IF translation.err # ""
        THEN [ err |-> translation.err, messages |-> << >> ]
        ELSE [ err |-> "",
               messages |-> << Message("system", system_content),
                               Message("user", INIT_DIFF),
                               Message("assistant", consistency_content) >> ]

-----------------------------------------------------------------------------
(* Engines: src/engine, src/utils/token_count.rs *)

\* token_count: the number of tokens of the encoding (a text is the
\* sequence of its tokens)
token_count(text) == Len(text)

\* usize arithmetic wraps at this modulus (2^64 in the build; the width is
\* scaled down to what the checker's integers hold, above every budget)
usize_modulus == 2 ^ 16

\* a - b in usize where overflow is not checked
wrapping_sub(a, b) == (a + usize_modulus - b) % usize_modulus

RECURSIVE SumTokens(_)
\* Lines 80-82: the sum of token_count(content) + 4 over the messages
SumTokens(msgs) ==
    IF msgs = << >> THEN 0
    ELSE token_count(Head(msgs).content) + 4 + SumTokens(Tail(msgs))

\* Mutant of openai_messages: the assembled messages are sent as they are
openai_messages_All(messages, difftext) ==
    messages \o << Message("user", difftext) >>

\* Mutant of openai_messages: the diff is sent before the kept messages
openai_messages_DiffFirst(messages, difftext) ==
    << Message("user", difftext) >>
    \o SelectSeq(messages, LAMBDA m : m.role # "user")

\* Lines 63-77: the messages sent: every message that is not a user
\* message, then the diff as a user message
openai_messages(messages, difftext) ==
    SelectSeq(messages, LAMBDA m : m.role # "user")
    \o << Message("user", difftext) >>

\* Line 84: request_tokens > max_tokens_input - max_tokens_output on usize:
\* "panic" when the subtraction overflows and the build checks overflow
token_check(cfg, request_tokens) ==
    IF cfg.tokens_max_output > cfg.tokens_max_input /\ overflow_checks
    THEN "panic"
    ELSE IF request_tokens > wrapping_sub(cfg.tokens_max_input, cfg.tokens_max_output)
    THEN "TooManyTokens"
    ELSE "pass"

\* Mutant of TestEngine: "feat" is looked for first
TestEngine_FeatFirst(difftext) ==
    IF Contains(difftext, << "feat" >>)
    THEN << "feat: add new feature" >>
    ELSE IF Contains(difftext, << "PORT" >>)
    THEN << "fix(server.ts): change port variable case from lowercase port to uppercase PORT" >>
    ELSE << "test(mock): test commit message" >>

\* TestEngine::generate_commit_message
TestEngine(difftext) ==
    IF Contains(difftext, << "PORT" >>)
    THEN << "fix(server.ts): change port variable case from lowercase port to uppercase PORT" >>
    ELSE IF Contains(difftext, << "feat" >>)
    THEN << "feat: add new feature" >>
    ELSE << "test(mock): test commit message" >>

\* What the backend answers to one request: no answer at all (the request
\* fails), a non-success status with a body or with a body that cannot be
\* read, a success whose body is no completion, or the list of candidate
\* texts.
Responses ==
    { [ kind |-> "network" ], [ kind |-> "status_unread" ], [ kind |-> "badjson" ] }
    \cup { [ kind |-> "status", body |-> b ] : b \in { << >>, << "rate", "limit" >> } }
    \cup { [ kind |-> "ok", choices |-> c ] :
             c \in { << >>, << << >> >>, << << "feat:", "x" >> >>,
                     << << "fix:", "$msg" >>, << "other" >> >> } }

EngineResult(err, d, text, sent) ==
    [ err |-> err, detail |-> d, text |-> text, sent |-> sent ]

\* Mutant of response_result: the status of the response is not looked at
response_result_NoStatusTest(resp) ==
    IF resp.kind \in { "network", "status_unread", "badjson", "status" }
    THEN EngineResult("Request", None, << >>, TRUE)
    ELSE IF resp.choices = << >>
    THEN EngineResult("EmptyCommitMessage", None, << >>, TRUE)
    ELSE IF resp.choices[1] = << >>
    THEN EngineResult("EmptyCommitMessage", None, << >>, TRUE)
    ELSE EngineResult("", None, resp.choices[1], TRUE)

\* Mutant of response_result: the last candidate is returned
response_result_LastChoice(resp) ==
    IF resp.kind \in { "network", "status_unread", "badjson" }
    THEN EngineResult("Request", None, << >>, TRUE)
    ELSE IF resp.kind = "status"
    THEN EngineResult("AiProviderError", Some(<< "OpenAI error: " >> \o resp.body),
                      << >>, TRUE)
    ELSE IF resp.choices = << >>
    THEN EngineResult("EmptyCommitMessage", None, << >>, TRUE)
    ELSE IF resp.choices[Len(resp.choices)] = << >>
    THEN EngineResult("EmptyCommitMessage", None, << >>, TRUE)
    ELSE EngineResult("", None, resp.choices[Len(resp.choices)], TRUE)

\* Lines 97-126 of OpenAiEngine::generate_commit_message: from the response on
response_result(resp) ==
    IF resp.kind \in { "network", "status_unread", "badjson" }
    THEN EngineResult("Request", None, << >>, TRUE)
    ELSE IF resp.kind = "status"
    THEN EngineResult("AiProviderError", Some(<< "OpenAI error: " >> \o resp.body),
                      << >>, TRUE)
    ELSE IF resp.choices = << >>
    THEN EngineResult("EmptyCommitMessage", None, << >>, TRUE)
    ELSE IF resp.choices[1] = << >>
    THEN EngineResult("EmptyCommitMessage", None, << >>, TRUE)
    ELSE EngineResult("", None, resp.choices[1], TRUE)

\* Mutant of generate_commit_message: the tokens are counted after the
\* request was sent
generate_commit_message_CheckAfterSend(variant, cfg, messages, difftext, resp) ==
    IF variant = "test" THEN EngineResult("", None, TestEngine(difftext), FALSE)
    ELSE LET request_tokens == SumTokens(openai_messages(messages, difftext))
             check == token_check(cfg, request_tokens)
         IN  IF check = "panic" THEN EngineResult("panic", None, << >>, TRUE)
             ELSE IF check = "TooManyTokens"
             THEN EngineResult("TooManyTokens", Some(request_tokens), << >>, TRUE)
             ELSE response_result(resp)

\* AiEngine::generate_commit_message of the engine get_engine made:
\* [err |-> Error variant, "panic" or "", detail |-> what the variant carries,
\*  text |-> the message, sent |-> whether the request was sent]
generate_commit_message(variant, cfg, messages, difftext, resp) ==
    IF variant = "test" THEN EngineResult("", None, TestEngine(difftext), FALSE)
    ELSE LET request_tokens == SumTokens(openai_messages(messages, difftext))
             check == token_check(cfg, request_tokens)
         IN  IF check = "panic" THEN EngineResult("panic", None, << >>, FALSE)
             ELSE IF check = "TooManyTokens"
             THEN EngineResult("TooManyTokens", Some(request_tokens), << >>, FALSE)
             ELSE response_result(resp)

-----
(* The commit command: src/commands/commit.rs *)

\* Mutant of check_message_template: the last argument containing the
\* placeholder
check_message_template_Last(args, cfg) ==
    IF \E i \in 1..Len(args) : Contains(args[i], cfg.message_template_placeholder)
    THEN CHOOSE i \in 1..Len(args) :
            /\ Contains(args[i], cfg.message_template_placeholder)
            /\ \A j \in (i + 1)..Len(args) :
                    ~Contains(args[j], cfg.message_template_placeholder)
    ELSE 0

\* check_message_template: the first argument containing the placeholder,
\* as its position in extra_args (0 for None)
check_message_template(args, cfg) ==
    IF \E i \in 1..Len(args) : Contains(args[i], cfg.message_template_placeholder)
    THEN CHOOSE i \in 1..Len(args) :
            /\ Contains(args[i], cfg.message_template_placeholder)
            /\ \A j \in 1..(i - 1) :
                    ~Contains(args[j], cfg.message_template_placeholder)
    ELSE 0

\* The message after the template handling of execute_commit
apply_template(args, cfg, message) ==
    LET t == check_message_template(args, cfg)
    IN  IF t = 0 THEN message
        ELSE Replace(args[t], cfg.message_template_placeholder, message)

\* The arguments execute_commit hands to `git commit` after "commit -m <message>":
\* the loop pushes every element of extra_args.
commit_args(args, cfg) == args

Event(ev, arg) == [ ev |-> ev, arg |-> arg ]
Log(e) == obs' = Append(obs, e)
Log2(e, f) == obs' = Append(Append(obs, e), f)

\* return: Ok(()) or an Error variant that carries nothing
Finish(res) == pc' = "done" /\ result' = res /\ detail' = << >>

\* Mutant of spinner_dropped: the indicator of an early return keeps ticking
spinner_dropped_Leaked == << "start" >>

\* A ProgressBar local that ticks when the function is left early (`?`, a
\* panic): enable_steady_tick, then the drop of the local, which ends its
\* ticker
spinner_dropped == << "start", "drop" >>

\* A ProgressBar local the code finishes: enable_steady_tick, then
\* finish_and_clear or finish_with_message(how)
spinner_finished(how) == << "start", how >>

\* Answers of an inquire prompt: a value, or Err (dismissed)
Dismissed == "dismissed"
ConfirmAnswers == { "yes", "no", Dismissed }

\* Outcomes of Command::output(): the process ran and exited with success or
\* with failure, or it could not be run at all (io::Error)
Outcomes == { "success", "failure", "io" }

\* Lines `git remote` may print
RemoteLists == { << >>, << "origin" >>, << "origin", "upstream" >> }

DontPush == "don't push"

\* The repository as a call saw it
Snapshot == [ index |-> idx, worktree |-> wt ]

\* Lines 33-61: assert_git_repo, then the staged files of this call.
Start ==
    /\ pc = "start"
    /\ \/ /\ Finish("NotGitRepository")
          /\ UNCHANGED << idx, wt, staged_files, changed_files, obs >>
       \/ /\ is_stage_all
          /\ LET changed == get_changed_files(wt, ocoignore)
             IN  IF changed = << >>
                 THEN /\ Finish("NoStagedFiles")
                      /\ UNCHANGED << idx, wt, staged_files, changed_files, obs >>
                 ELSE \/ /\ Finish("Git")      \* git_add fails
                         /\ UNCHANGED << idx, wt, staged_files, changed_files, obs >>
                      \/ /\ idx' = git_add_index(idx, wt, changed)
                         /\ wt' = git_add_wt(wt, changed)
                         /\ staged_files' = changed
                         /\ Log(Event("git_add", changed))
                         /\ pc' = "diff"
                         /\ UNCHANGED << result, detail, changed_files >>
       \/ /\ ~is_stage_all
          /\ LET staged == get_staged_files(idx, ocoignore)
                 changed == get_changed_files(wt, ocoignore)
                 call == Event("get_staged_files",
                               [ files |-> staged, repo |-> Snapshot ])
             IN  IF staged # << >>
                 THEN /\ staged_files' = staged
                      /\ Log(call)
                      /\ pc' = "diff"
                      /\ UNCHANGED << result, detail, changed_files >>
                 ELSE IF changed = << >>
                 THEN /\ Finish("NoStagedFiles")
                      /\ staged_files' = staged
                      /\ Log(call)
                      /\ UNCHANGED changed_files
                 ELSE /\ staged_files' = staged
                      /\ changed_files' = changed
                      /\ Log2(call, Event("prompt", << "stage_all", << >> >>))
                      /\ pc' = "ask_stage_all"
                      /\ UNCHANGED << result, detail >>
          /\ UNCHANGED << idx, wt >>
    /\ UNCHANGED << is_stage_all, skip_confirmation, extra_args, key_values, context, full_gitmoji_spec,
                    overflow_checks, disk_later, loads, spinner, ocoignore, disk,
                    CONFIG, diff, config, engine_out, commit_message, remotes >>

\* Lines 69-99: what the answer to "stage all files?" leads to
stage_all_step(answer) ==
    IF answer = "yes" THEN "start"
    ELSE IF answer = "no" THEN "select_files"
    ELSE "UserCancelled"

\* Lines 65-99: the answer to "stage all files?"
StageAllPrompt ==
    /\ pc = "ask_stage_all"
    /\ \E answer \in ConfirmAnswers :
        LET to == stage_all_step(answer)
            answered == Event("answer", << "stage_all", answer >>)
        IN  CASE to = "start" ->
                \* return execute_commit(extra_args, context, true, ..)
                /\ pc' = "start"
                /\ is_stage_all' = TRUE
                /\ staged_files' = << >>
                /\ changed_files' = << >>
                /\ Log(answered)
                /\ UNCHANGED << result, detail >>
              [] to = "UserCancelled" ->
                /\ Finish("UserCancelled")
                /\ Log(answered)
                /\ UNCHANGED << is_stage_all, staged_files, changed_files >>
              [] OTHER ->
                /\ pc' = to
                /\ Log2(answered, Event("prompt", << "select_files", changed_files >>))
                /\ UNCHANGED << result, detail, is_stage_all, staged_files, changed_files >>
    /\ UNCHANGED << skip_confirmation, extra_args, key_values, context, full_gitmoji_spec,
                    overflow_checks, disk_later, loads, spinner, idx, wt, ocoignore, disk, CONFIG,
                    diff, config, engine_out, commit_message, remotes >>

\* The selections a MultiSelect over the options can return: the chosen
\* options in the order of the list
Selections(options) == { SortedSeq(S) : S \in SUBSET Range(options) }

\* Mutant of selected_files: every changed file is staged
selected_files_All(files, changed) == changed

\* Lines 88-89: the files staged after a selection
selected_files(files, changed) == files

\* Lines 75-94: the answer to the file selection
SelectFiles ==
    /\ pc = "select_files"
    /\ \/ /\ Finish("UserCancelled")
          /\ Log(Event("answer", << "select_files", Dismissed >>))
          /\ UNCHANGED << idx, wt, staged_files >>
       \/ \E files \in Selections(changed_files) :
            IF files = << >>
            THEN /\ Finish("UserCancelled")
                 /\ Log(Event("selected", files))
                 /\ UNCHANGED << idx, wt, staged_files >>
            ELSE \/ /\ Finish("Git")      \* git_add fails
                    /\ Log(Event("selected", files))
                    /\ UNCHANGED << idx, wt, staged_files >>
                 \/ LET add == selected_files(files, changed_files)
                    IN  /\ idx' = git_add_index(idx, wt, add)
                        /\ wt' = git_add_wt(wt, add)
                        /\ staged_files' = add
                        /\ Log2(Event("selected", files), Event("git_add", add))
                        /\ pc' = "diff"
                        /\ UNCHANGED << result, detail >>
    /\ UNCHANGED << is_stage_all, skip_confirmation, extra_args, key_values, context, full_gitmoji_spec,
                    overflow_checks, disk_later, loads, spinner, ocoignore, disk,
                    CONFIG, changed_files, diff, config, engine_out, commit_message,
                    remotes >>

\* Lines 102-117: the diff of the staged files, the configuration, the API
\* key check.
GetDiff ==
    /\ pc = "diff"
    /\ \/ /\ Finish("Git")              \* `git diff` exits with failure
          /\ UNCHANGED << CONFIG, diff, config, loads, obs >>
       \/ /\ CONFIG = None              \* the configuration file cannot be read
          /\ Finish("Io")
          /\ diff' = Some(get_diff(idx, staged_files))
          /\ Log(Event("get_diff", [ files |-> staged_files, repo |-> Snapshot ]))
          /\ UNCHANGED << CONFIG, config, loads >>
       \/ LET cfg == Config_load(CONFIG, disk)
          IN  /\ diff' = Some(get_diff(idx, staged_files))
              /\ config' = Some(cfg)
              /\ CONFIG' = Some(cfg)
              /\ loads' = Append(loads, Loaded(CONFIG, disk))
              /\ Log2(Event("get_diff", [ files |-> staged_files, repo |-> Snapshot ]),
                      Event("Config_load", cfg))
              /\ IF api_key_missing(cfg)
                 THEN Finish("NoApiKey")
                 ELSE pc' = "generate" /\ UNCHANGED << result, detail >>
    /\ UNCHANGED << is_stage_all, skip_confirmation, extra_args, key_values, context, full_gitmoji_spec,
                    overflow_checks, disk_later, spinner, idx, wt, ocoignore,
                    disk, staged_files, changed_files, engine_out, commit_message,
                    remotes >>

\* What `git diff --staged` prints for one path: the header with the name,
\* then the whole file when the path is new in the index, else the change
PathDiff(p, added) ==
    << "diff --git" >> \o PathNames[p]
    \o (IF added
        THEN << "new file mode" >>
             \o << << "version" >>, << "+const", "PORT", "feat" >>,
                   << "Binary files differ" >>, << "lockfileVersion" >>,
                   << "PORT" >> >>[p]
        ELSE << << "version" >>, << "feat" >>, << "Binary files differ" >>,
                << "lockfileVersion" >>, << "PORT" >> >>[p])

RECURSIVE ConcatDiffs(_, _)
ConcatDiffs(ps, added) ==
    IF ps = << >> THEN << >>
    ELSE PathDiff(Head(ps), Head(ps) \in added) \o ConcatDiffs(Tail(ps), added)

\* The text of `git diff --staged`: the paths shown, in path order; nothing
\* when no path is shown
diff_text(d) == ConcatDiffs(SortedSeq(d.shown), d.added)

\* Mutant of confirmed_without_prompt: the flag is not read
confirmed_without_prompt_Never(skip) == FALSE

\* Lines 156-158: with skip_confirmation the message counts as confirmed
\* and Confirm::prompt is not called
confirmed_without_prompt(skip) == skip

\* Lines 119-153: the prompt, the engine, the engine's message, the
\* message template; the message is displayed, and with skip_confirmation
\* it counts as confirmed.
Generate ==
    /\ pc = "generate"
    /\ loads' = Append(loads, Loaded(CONFIG, disk))
    /\ LET cfg == config[1]
           \* prompts.rs 129: the prompt is built from its own Config::load
           prompt == get_main_commit_prompt(Config_load(CONFIG, disk),
                                            full_gitmoji_spec, context)
           variant == AiProvider_from_str(cfg.ai_provider)
           prompted == Event("get_main_commit_prompt", prompt.messages)
       IN  IF prompt.err # ""
           THEN /\ Finish(prompt.err)
                /\ spinner' = spinner \o spinner_dropped
                /\ UNCHANGED << engine_out, commit_message, obs >>
           ELSE IF variant = ""
           THEN /\ Finish("UnsupportedAiProvider")
                /\ spinner' = spinner \o spinner_dropped
                /\ Log(prompted)
                /\ UNCHANGED << engine_out, commit_message >>
           ELSE \E resp \in Responses :
                LET text == diff_text(diff[1])
                    r == generate_commit_message(variant, cfg, prompt.messages,
                                                 text, resp)
                    message == apply_template(extra_args, cfg, r.text)
                    called ==
                        << prompted,
                           Event("get_engine", variant),
                           Event("generate_commit_message",
                                 [ diff |-> diff[1], text |-> text ]) >>
                        \o (IF r.sent
                            THEN << Event("request",
                                          openai_messages(prompt.messages, text)),
                                    Event("response", resp) >>
                            ELSE << >>)
                IN  IF r.err # ""
                    THEN /\ pc' = "done" /\ result' = r.err /\ detail' = r.detail
                         /\ spinner' = spinner \o spinner_dropped
                         /\ obs' = obs \o called
                         /\ UNCHANGED << engine_out, commit_message >>
                    ELSE /\ engine_out' = r.text
                         /\ commit_message' = message
                         /\ spinner' = spinner \o spinner_finished("finish_and_clear")
                         /\ UNCHANGED << result, detail >>
                         /\ IF confirmed_without_prompt(skip_confirmation)
                            THEN /\ pc' = "commit"
                                 /\ obs' = obs \o called
                                        \o << Event("engine_returned", r.text),
                                              Event("display", message) >>
                            ELSE /\ pc' = "confirm"
                                 /\ obs' = obs \o called
                                        \o << Event("engine_returned", r.text),
                                              Event("display", message),
                                              Event("prompt", << "confirm", << >> >>) >>
    /\ UNCHANGED << is_stage_all, skip_confirmation, extra_args, key_values, context, full_gitmoji_spec,
                    overflow_checks, disk_later, idx, wt, ocoignore,
                    disk, CONFIG, staged_files, changed_files, diff, config, remotes >>

\* Mutant of confirm_step: a dismissed confirmation counts as a yes
confirm_step_DismissedIsYes(answer) ==
    IF answer = "no" THEN "ask_regenerate" ELSE "commit"

\* Mutant of confirm_step: a declined message is generated again unasked
confirm_step_SilentRetry(answer) ==
    IF answer = "yes" THEN "commit"
    ELSE IF answer = "no" THEN "generate"
    ELSE "UserCancelled"

\* Lines 159-168 and 281: what the answer to "Confirm the commit message?"
\* leads to
confirm_step(answer) ==
    IF answer = "yes" THEN "commit"
    ELSE IF answer = "no" THEN "ask_regenerate"
    ELSE "UserCancelled"

\* Lines 156-168: the answer to "Confirm the commit message?"
Confirm ==
    /\ pc = "confirm"
    /\ \E answer \in ConfirmAnswers :
        LET to == confirm_step(answer)
            answered == Event("answer", << "confirm", answer >>)
        IN  CASE to = "UserCancelled" ->
                Finish("UserCancelled") /\ Log(answered)
              [] to = "ask_regenerate" ->
                /\ pc' = to
                /\ Log2(answered, Event("prompt", << "regenerate", << >> >>))
                /\ UNCHANGED << result, detail >>
              [] OTHER ->
                pc' = to /\ Log(answered) /\ UNCHANGED << result, detail >>
    /\ UNCHANGED << is_stage_all, skip_confirmation, extra_args, key_values, context, full_gitmoji_spec,
                    overflow_checks, disk_later, loads, spinner, idx, wt, ocoignore,
                    disk, CONFIG, staged_files, changed_files, diff, config,
                    engine_out, commit_message, remotes >>

\* `git commit` with success: the index entries become the new HEAD
commit_index(ix) == [ p \in Paths |-> "none" ]

\* Mutant of push_enabled: the push switch is not read
push_enabled_Always(cfg) == TRUE

\* Line 196: the remotes are listed only with gitpush
push_enabled(cfg) == cfg.gitpush

\* Mutant of push_prompt: the list of remotes is not tested for emptiness
push_prompt_NoEmptyTest(rs) ==
    IF Len(rs) = 1 THEN "push_confirm" ELSE "push_select"

\* Lines 204-210 and 243: the prompt the number of remotes asks for
push_prompt(rs) ==
    IF rs = << >> THEN "none"
    ELSE IF Len(rs) = 1 THEN "push_confirm"
    ELSE "push_select"

\* Mutant of commit_end: the regeneration prompt follows the commit branch
commit_end_AskRegenerate == "ask_regenerate"

\* Lines 168, 281 and 296: the commit and the regeneration prompt are the
\* two branches of `if confirmed`; the commit branch ends at Ok(())
commit_end == "done"

\* Lines 168-210: `git commit`, and with gitpush `git remote` and the prompt
\* the number of remotes asks for.
Commit ==
    /\ pc = "commit"
    /\ \E outcome \in Outcomes :
        LET call == Event("git_commit",
                          [ message |-> commit_message,
                            args    |-> commit_args(extra_args, config[1]),
                            outcome |-> outcome ])
        IN
        /\ idx' = IF outcome = "success" THEN commit_index(idx) ELSE idx
        /\ spinner' = spinner \o (IF outcome = "io" THEN spinner_dropped
                                   ELSE spinner_finished("Successfully committed"))
        /\ IF outcome = "io"
           THEN Finish("Io") /\ Log(call) /\ UNCHANGED remotes
           ELSE IF ~push_enabled(config[1])
           THEN /\ IF commit_end = "done"
                   THEN Finish("Ok") /\ Log(call)
                   ELSE /\ pc' = commit_end
                        /\ Log2(call, Event("prompt", << "regenerate", << >> >>))
                        /\ UNCHANGED << result, detail >>
                /\ UNCHANGED remotes
           ELSE \/ /\ Finish("Io")      \* `git remote` cannot be run
                   /\ Log(call)
                   /\ UNCHANGED remotes
                \/ \E rs \in RemoteLists :
                     /\ remotes' = rs
                     /\ IF push_prompt(rs) = "none"
                        THEN Finish("Ok") /\ Log2(call, Event("git_remote", rs))
                        ELSE IF push_prompt(rs) = "push_confirm"
                        THEN /\ pc' = "push_confirm"
                             /\ obs' = obs \o << call, Event("git_remote", rs),
                                                 Event("prompt", << "push_confirm", rs >>) >>
                             /\ UNCHANGED << result, detail >>
                        ELSE /\ pc' = "push_select"
                             /\ obs' = obs \o << call, Event("git_remote", rs),
                                                 Event("prompt", << "push_select", Append(rs, DontPush) >>) >>
                             /\ UNCHANGED << result, detail >>
    /\ UNCHANGED << is_stage_all, skip_confirmation, extra_args, key_values, context, full_gitmoji_spec,
                    overflow_checks, disk_later, loads, wt, ocoignore, disk,
                    CONFIG, staged_files, changed_files, diff, config, engine_out,
                    commit_message >>

\* Lines 221-235 and 254-268: the indicator around `git push`; it is
\* finished with the success message whenever the command could be run
push_spinner(outcome) ==
    IF outcome = "io" THEN spinner_dropped
    ELSE spinner_finished("Successfully pushed")

\* Mutant of push_confirm_step: a declined push is run
push_confirm_step_NoPushes(answer) ==
    IF answer = Dismissed THEN "UserCancelled" ELSE "push"

\* Lines 212-241: what the answer to "Do you want to run `git push <remote>`?"
\* leads to
push_confirm_step(answer) ==
    IF answer = "yes" THEN "push"
    ELSE IF answer = "no" THEN "Ok"
    ELSE "UserCancelled"

\* Lines 212-242: the answer to "Do you want to run `git push <remote>`?"
PushConfirm ==
    /\ pc = "push_confirm"
    /\ \E answer \in ConfirmAnswers :
        LET answered == Event("answer", << "push_confirm", answer >>)
            to == push_confirm_step(answer)
        IN  CASE to = "push" ->
                \E outcome \in Outcomes :
                    /\ Log2(answered,
                            Event("git_push", [ remote |-> remotes[1],
                                                outcome |-> outcome ]))
                    /\ spinner' = spinner \o push_spinner(outcome)
                    /\ Finish(IF outcome = "io" THEN "Io" ELSE "Ok")
              [] OTHER ->
                Finish(to) /\ Log(answered) /\ UNCHANGED spinner
    /\ UNCHANGED << is_stage_all, skip_confirmation, extra_args, key_values, context, full_gitmoji_spec,
                    overflow_checks, disk_later, loads, idx, wt, ocoignore,
                    disk, CONFIG, staged_files, changed_files, diff, config,
                    engine_out, commit_message, remotes >>

\* Mutant of push_remote: the push goes to the first remote
push_remote_First(rs, selected) == rs[1]

\* Lines 264-266: the remote `git push` is given after a selection
push_remote(rs, selected) == selected

\* Lines 244-279: the answer to "Choose a remote to push to:"
PushSelect ==
    /\ pc = "push_select"
    /\ \E remote \in Range(remotes) \cup { DontPush, Dismissed } :
        LET answered == Event("answer", << "push_select", remote >>)
        IN  IF remote = Dismissed
            THEN Finish("UserCancelled") /\ Log(answered) /\ UNCHANGED spinner
            ELSE IF remote # DontPush
            THEN \E outcome \in Outcomes :
                    /\ Log2(answered,
                            Event("git_push", [ remote |-> push_remote(remotes, remote),
                                                outcome |-> outcome ]))
                    /\ spinner' = spinner \o push_spinner(outcome)
                    /\ Finish(IF outcome = "io" THEN "Io" ELSE "Ok")
            ELSE Finish("Ok") /\ Log(answered) /\ UNCHANGED spinner
    /\ UNCHANGED << is_stage_all, skip_confirmation, extra_args, key_values, context, full_gitmoji_spec,
                    overflow_checks, disk_later, loads, idx, wt, ocoignore,
                    disk, CONFIG, staged_files, changed_files, diff, config,
                    engine_out, commit_message, remotes >>

\* The positions of the log holding an event of a kind
Events(log, kind) == { i \in 1..Len(log) : log[i].ev = kind }

\* Mutant of regenerate_step: a declined regeneration commits
regenerate_step_NoCommits(answer) ==
    IF answer = "yes" THEN "start"
    ELSE IF answer = "no" THEN "commit"
    ELSE "UserCancelled"

\* Lines 283-296: what the answer to "regenerate the message?" leads to
regenerate_step(answer) ==
    IF answer = "yes" THEN "start"
    ELSE IF answer = "no" THEN "done"
    ELSE "UserCancelled"

\* Mutant of regenerate_is_stage_all: the argument of line 71
regenerate_is_stage_all_True == TRUE

\* Line 292: the is_stage_all argument of the call that regenerates
regenerate_is_stage_all == FALSE

\* Lines 281-296: the answer to "Do you want to regenerate the message?"
AskRegenerate ==
    /\ pc = "ask_regenerate"
    /\ \E answer \in ConfirmAnswers :
        LET to == regenerate_step(answer)
            answered == Event("answer", << "regenerate", answer >>)
        IN  CASE to = "start" ->
                \* return execute_commit(extra_args, context, false, ..)
                /\ Cardinality(Events(obs, "regenerate")) < MaxRegen
                /\ pc' = "start"
                /\ is_stage_all' = regenerate_is_stage_all
                /\ staged_files' = << >>
                /\ changed_files' = << >>
                /\ diff' = None
                /\ config' = None
                /\ engine_out' = << >>
                /\ commit_message' = << >>
                /\ Log2(answered, Event("regenerate", ""))
                /\ UNCHANGED << result, detail >>
              [] to = "done" ->
                /\ Finish("Ok")
                /\ Log(answered)
                /\ UNCHANGED << is_stage_all, staged_files, changed_files, diff,
                                config, engine_out, commit_message >>
              [] to = "UserCancelled" ->
                /\ Finish("UserCancelled")
                /\ Log(answered)
                /\ UNCHANGED << is_stage_all, staged_files, changed_files, diff,
                                config, engine_out, commit_message >>
              [] OTHER ->
                /\ pc' = to
                /\ Log(answered)
                /\ UNCHANGED << result, detail, is_stage_all, staged_files, changed_files,
                                diff, config, engine_out, commit_message >>
    /\ UNCHANGED << skip_confirmation, extra_args, key_values, context, full_gitmoji_spec,
                    overflow_checks, disk_later, loads, spinner, idx, wt, ocoignore, disk, CONFIG,
                    remotes >>

\* main returns the Result of execute_commit: the exit status of the
\* process is 0 for Ok(()), 1 for an Err, 101 for a panic
exit_code(res) ==
    IF res = "Ok" THEN 0 ELSE IF res = "panic" THEN 101 ELSE 1

\* Someone else changes the configuration file or the environment while
\* the command runs (`oco config set`, an edit of .env)
ChangeDisk ==
    /\ pc # "done"
    /\ disk_later # None
    /\ disk' = disk_later[1]
    /\ disk_later' = None
    /\ UNCHANGED << pc, result, detail, is_stage_all, skip_confirmation, extra_args, key_values,
                    context, full_gitmoji_spec, overflow_checks, idx, wt,
                    ocoignore, CONFIG, staged_files, changed_files, diff, config,
                    engine_out, commit_message, remotes, spinner, loads, obs >>

-----------------------------------------------------------------------------
(* Initial states and the specification *)

\* The status pairs a path starts with: untouched, changed and unstaged
\* (modified, untracked, deleted), staged (new, modified, deleted), staged
\* and changed again.  (StatusOptions asks for no rename detection, so no
\* entry is reported as renamed.)
StatusPairs ==
    { << "none", "none" >>, << "none", "modified" >>, << "none", "new" >>,
      << "none", "deleted" >>, << "new", "none" >>, << "modified", "none" >>,
      << "deleted", "none" >>, << "modified", "modified" >> }

\* The contents of .opencommitignore: absent or empty, "*.png", "!*.lock"
IgnoreFiles ==
    { << >>,
      << Glob("suffix", << ".png" >>, FALSE) >>,
      << Glob("suffix", << ".lock" >>, TRUE) >> }

\* The configurations the file and the environment can give: the key, the
\* provider, the push switch
Configs ==
    { [ Config_default EXCEPT !.api_key = k, !.ai_provider = a, !.gitpush = g ] :
        k \in { "None", "Some" }, a \in ProviderIds, g \in BOOLEAN }

\* Configurations with a key and a placeholder text
TemplateConfigs ==
    { [ Config_default EXCEPT !.api_key = "Some", !.gitpush = FALSE,
                              !.message_template_placeholder = ph ] :
        ph \in Placeholders }

\* The configuration of a dry run: the test provider, no key, no push
TestConfig ==
    [ Config_default EXCEPT !.ai_provider = "test", !.gitpush = FALSE ]

\* OCO_TOKENS_MAX_INPUT and OCO_TOKENS_MAX_OUTPUT: any two numbers; here
\* budgets around the size of a request, and an output budget above the
\* input budget
TokenBudgets ==
    { << 5, 10 >>, << 38, 10 >>, << 39, 10 >>, << 40, 10 >>, << 41, 10 >>,
      << 45, 10 >> }

\* Configurations with a key and a budget, for the providers whose engine
\* is at hand
BudgetConfigs ==
    { [ Config_default EXCEPT !.api_key = "Some", !.ai_provider = a,
                              !.gitpush = FALSE, !.tokens_max_input = t[1],
                              !.tokens_max_output = t[2], !.emoji = e,
                              !.language = l ] :
        a \in { "openai", "test" }, t \in TokenBudgets, e \in BOOLEAN,
        l \in { "en", "xx" } }

\* Texts of --context (empty when the option is absent)
Contexts == { << >>, << "ticket", "42" >> }

\* Trailing arguments of the command line
ArgLists ==
    { << >>,
      << << "--no-verify" >> >>,
      << << "--template" >>, << "$msg", "-", "reviewed" >> >>,
      << << "-s" >>, << "[", "$msg", "]" >>, << "$msg", "$msg" >> >>,
      << << "$", "-", "m" >>, << "$", "$", "m", "m" >> >> }

InitLocals ==
    /\ pc = "start"
    /\ result = "none"
    /\ detail = None
    /\ is_stage_all = FALSE        \* main passes false
    /\ key_values = << >>
    /\ CONFIG = None
    /\ staged_files = << >>
    /\ changed_files = << >>
    /\ diff = None
    /\ config = None
    /\ engine_out = << >>
    /\ commit_message = << >>
    /\ remotes = << >>
    /\ spinner = << >>
    /\ loads = << >>
    /\ obs = << >>

\* Every repository without .opencommitignore, with the command line and
\* the configuration fixed
InitRepositories ==
    /\ \E st \in [ Paths -> StatusPairs ] :
          /\ idx = [ p \in Paths |-> st[p][1] ]
          /\ wt = [ p \in Paths |-> st[p][2] ]
    /\ ocoignore = << >>
    /\ skip_confirmation = TRUE
    /\ extra_args = << >>
    /\ context = << >>
    /\ full_gitmoji_spec = FALSE
    /\ overflow_checks = FALSE
    /\ disk = TestConfig
    /\ disk_later = None

\* Every .opencommitignore, with every path untouched, changed or staged
InitIgnoreFiles ==
    /\ \E st \in [ Paths -> { << "none", "none" >>, << "none", "modified" >>,
                              << "modified", "none" >> } ] :
          /\ idx = [ p \in Paths |-> st[p][1] ]
          /\ wt = [ p \in Paths |-> st[p][2] ]
    /\ ocoignore \in IgnoreFiles
    /\ skip_confirmation = TRUE
    /\ extra_args = << >>
    /\ context = << >>
    /\ full_gitmoji_spec = FALSE
    /\ overflow_checks = FALSE
    /\ disk = TestConfig
    /\ disk_later = None

\* Every command line and placeholder, with a.rs staged or changed
InitCommands ==
    /\ \E st \in { << "modified", "none" >>, << "none", "modified" >> } :
          /\ idx = [ p \in Paths |-> IF p = 2 THEN st[1] ELSE "none" ]
          /\ wt = [ p \in Paths |-> IF p = 2 THEN st[2] ELSE "none" ]
    /\ ocoignore = << >>
    /\ skip_confirmation \in BOOLEAN
    /\ extra_args \in ArgLists
    /\ context = << >>
    /\ full_gitmoji_spec = FALSE
    /\ overflow_checks = FALSE
    /\ disk \in TemplateConfigs
    /\ disk_later = None

\* Every provider, key and push switch, with a.rs staged (in content or in
\* type), changed or both
InitProviders ==
    /\ \E st \in { << "modified", "none" >>, << "none", "modified" >>,
                    << "modified", "modified" >>, << "typechange", "none" >> } :
          /\ idx = [ p \in Paths |-> IF p = 2 THEN st[1] ELSE "none" ]
          /\ wt = [ p \in Paths |-> IF p = 2 THEN st[2] ELSE "none" ]
    /\ ocoignore = << >>
    /\ skip_confirmation \in BOOLEAN
    /\ extra_args = << >>
    /\ context = << >>
    /\ full_gitmoji_spec = FALSE
    /\ overflow_checks = FALSE
    /\ disk \in Configs
    /\ disk_later = None

\* Every token budget, build, context and prompt switch, with a.rs staged
InitBudgets ==
    /\ idx = [ p \in Paths |-> IF p = 2 THEN "modified" ELSE "none" ]
    /\ wt = [ p \in Paths |-> "none" ]
    /\ ocoignore = << >>
    /\ skip_confirmation \in BOOLEAN
    /\ extra_args = << >>
    /\ context \in Contexts
    /\ full_gitmoji_spec \in BOOLEAN
    /\ overflow_checks \in BOOLEAN
    /\ disk \in BudgetConfigs
    /\ disk_later = None

\* The configurations a change of the file makes of a configuration: the
\* push switch flipped, the emoji switch on, the other provider
Changed(cfg) ==
    [ cfg EXCEPT !.gitpush = ~@, !.emoji = TRUE,
                 !.ai_provider = IF @ = "test" THEN "openai" ELSE "test" ]

\* A configuration that changes during the run, with a.rs changed
InitDiskChange ==
    /\ idx = [ p \in Paths |-> "none" ]
    /\ wt = [ p \in Paths |-> IF p = 2 THEN "modified" ELSE "none" ]
    /\ ocoignore = << >>
    /\ skip_confirmation \in BOOLEAN
    /\ extra_args = << >>
    /\ context = << >>
    /\ full_gitmoji_spec = FALSE
    /\ overflow_checks = FALSE
    /\ disk \in { c \in Configs : c.api_key = "Some" /\ c.ai_provider = "test" }
    /\ disk_later = Some(Changed(disk))

Init ==
    InitLocals /\ (InitRepositories \/ InitIgnoreFiles \/ InitCommands
                   \/ InitProviders \/ InitBudgets \/ InitDiskChange)

Next ==
    \/ Start
    \/ StageAllPrompt
    \/ SelectFiles
    \/ GetDiff
    \/ Generate
    \/ Confirm
    \/ Commit
    \/ PushConfirm
    \/ PushSelect
    \/ AskRegenerate
    \/ ChangeDisk

Spec == Init /\ [][Next]_vars

-----------------------------------------------------------------------------
(* Reading the log *)

Done == pc = "done"

IsPrompt(e, name) == e.ev = "prompt" /\ e.arg[1] = name
IsAnswer(e, name, value) == e.ev = "answer" /\ e.arg[1] = name /\ e.arg[2] = value
IsDismissal(e) == e.ev = "answer" /\ e.arg[2] = Dismissed

StagingPrompts == { "stage_all", "select_files" }
PushPrompts == { "push_confirm", "push_select" }

\* A commit exists: `git commit` ran and exited with success
CommitCreated == \E i \in Events(obs, "git_commit") : obs[i].arg.outcome = "success"

-----------------------------------------------------------------------------
(* C1 *)

\* C1 as stated: whenever a prompt of the run was dismissed, the run has ended
\* with UserCancelled and no commit has been created in it.
C1_DismissalLeavesNoCommit ==
    \A i \in 1..Len(obs) :
        IsDismissal(obs[i]) =>
            Done /\ result = "UserCancelled" /\ ~CommitCreated

\* C1 amended: whenever a prompt of the run was dismissed, the run has ended
\* with UserCancelled, the dismissal being its last event; `git commit` was
\* never run when the prompt was a staging, confirmation or regeneration
\* prompt, and it was run before the prompt when the prompt was a push prompt.
C1_DismissalCancels ==
    \A i \in 1..Len(obs) :
        IsDismissal(obs[i]) =>
            /\ Done /\ result = "UserCancelled" /\ i = Len(obs)
            /\ obs[i].arg[1] \notin PushPrompts => Events(obs, "git_commit") = {}
            /\ obs[i].arg[1] \in PushPrompts =>
                    \E j \in Events(obs, "git_commit") : j < i

\* A run where the regeneration prompt was dismissed after a regeneration
C1_Witness ==
    /\ Done
    /\ Events(obs, "regenerate") # {}
    /\ IsAnswer(obs[Len(obs)], "regenerate", Dismissed)

-----------------------------------------------------------------------------
(* C2, C3 *)

\* The positions of the arguments that contain the configured placeholder
TemplateArgs ==
    { k \in 1..Len(extra_args) :
        Contains(extra_args[k], CONFIG[1].message_template_placeholder) }

\* C2 as stated: when an argument contains the placeholder, the arguments
\* given to `git commit` after "commit -m <message>" are the pass-through
\* arguments without that argument.
C2_TemplateArgRemoved ==
    \A i \in Events(obs, "git_commit") :
        \A k \in TemplateArgs :
            (\A j \in TemplateArgs : k <= j) =>
                obs[i].arg.args = RemoveAt(extra_args, k)

\* C3: every message displayed is the engine's text when no argument
\* contains the placeholder, and else the first argument containing it with
\* the placeholder replaced by the engine's text; the message given to
\* `git commit` is the message displayed last.
C3_FinalMessage ==
    /\ \A i \in Events(obs, "display") :
          /\ obs[i - 1].ev = "engine_returned"
          /\ IF TemplateArgs = {}
             THEN obs[i].arg = obs[i - 1].arg
             ELSE \E k \in TemplateArgs :
                    /\ \A j \in TemplateArgs : k <= j
                    /\ obs[i].arg = Replace(extra_args[k],
                                            CONFIG[1].message_template_placeholder,
                                            obs[i - 1].arg)
    /\ \A c \in Events(obs, "git_commit") :
          \E i \in Events(obs, "display") :
             /\ i < c
             /\ \A j \in Events(obs, "display") : j <= i
             /\ obs[c].arg.message = obs[i].arg

\* A commit whose message comes from the first of two template arguments,
\* and a commit with the engine's text while arguments are passed through
C3_Witness ==
    /\ Events(obs, "git_commit") # {}
    /\ Cardinality(TemplateArgs) = 2
    /\ commit_message = << "[", "feat:", "x", "]" >>

-----------------------------------------------------------------------------
(* C4, C5 *)

\* The last event of a kind before position i (0 when there is none)
LastBefore(i, kind) ==
    IF \E j \in Events(obs, kind) : j < i
    THEN CHOOSE j \in Events(obs, kind) :
            j < i /\ \A k \in Events(obs, kind) : k < i => k <= j
    ELSE 0

C5_DeclinedTwiceCancels ==
    \A i \in 1..Len(obs) :
        IsAnswer(obs[i], "regenerate", "no") =>
            /\ IsAnswer(obs[i - 2], "confirm", "no")
            /\ Done /\ result = "Ok" /\ i = Len(obs)
            /\ Events(obs, "git_commit") = {}
            /\ Events(obs, "git_push") = {}

\* Declined, regenerated, declined again and regeneration declined
C5_Witness ==
    /\ Done
    /\ Events(obs, "regenerate") # {}
    /\ IsAnswer(obs[Len(obs)], "regenerate", "no")

-----------------------------------------------------------------------------
(* C6 - C9 *)

Ignored(p) == is_ignore(get_opencommit_ignore(ocoignore), p)

\* Paths with a staged change, and paths with an unstaged change, that the
\* ignore rules do not match
StagedIn(repo) == { p \in Paths : repo.index[p] # "none" /\ ~Ignored(p) }
ChangedIn(repo) ==
    { p \in Paths : repo.worktree[p] \in { "modified", "new" } /\ ~Ignored(p) }

\* C6 as stated: when the index holds staged paths that are not ignored and
\* stage-all was not requested, the staging step returns exactly those
\* paths, shows no staging prompt and leaves the index as it was.
C6_StagedPathsReturned ==
    \A i \in Events(obs, "get_staged_files") :
        StagedIn(obs[i].arg.repo) # {} =>
            /\ Range(obs[i].arg.files) = StagedIn(obs[i].arg.repo)
            /\ \A j \in (i + 1)..Len(obs) :
                 /\ obs[j].ev = "prompt" => obs[j].arg[1] \notin StagingPrompts
                 /\ obs[j].ev # "git_add"
            /\ ~(Done /\ result = "NoStagedFiles")

\* C7: when nothing is staged and nothing is changed, the run ends with
\* NoStagedFiles and all it did is read the status: no prompt, no git_add,
\* no engine, the repository as it was.
C7_NoChanges ==
    \A i \in Events(obs, "get_staged_files") :
        (StagedIn(obs[i].arg.repo) = {} /\ ChangedIn(obs[i].arg.repo) = {}) =>
            /\ Done /\ result = "NoStagedFiles"
            /\ Len(obs) = 1
            /\ idx = obs[i].arg.repo.index
            /\ wt = obs[i].arg.repo.worktree

\* NoStagedFiles in a repository whose only changes are an ignored path and
\* a deleted file
C7_Witness ==
    /\ Done /\ result = "NoStagedFiles" /\ Len(obs) = 1
    /\ ocoignore = << >>
    /\ wt[1] = "modified" /\ wt[2] = "deleted"

\* C8: after a yes to "stage all?" the call restarts with is_stage_all; unless
\* git_add fails, git_add gets every changed path that is not ignored, these
\* paths are the staged files of the diff, and each has a staged status and
\* no unstaged change left.
C8_StageAll ==
    \A i \in 1..Len(obs) :
        IsAnswer(obs[i], "stage_all", "yes") =>
            LET changed == ChangedIn(obs[i - 2].arg.repo)
            IN  /\ changed # {}
                /\ IF i = Len(obs)
                   THEN \/ pc = "start" /\ is_stage_all
                        \/ /\ Done /\ result \in { "Git", "NotGitRepository" }
                           /\ idx = obs[i - 2].arg.repo.index
                   ELSE /\ obs[i + 1] = Event("git_add", SortedSeq(changed))
                        /\ \A j \in Events(obs, "get_diff") :
                             j > i => obs[j].arg.files = SortedSeq(changed)
                        /\ pc = "diff" =>
                             /\ staged_files = SortedSeq(changed)
                             /\ \A p \in changed :
                                  idx[p] \in { "new", "modified" } /\ wt[p] = "none"

\* Two changed paths staged by a yes to "stage all?"
C8_Witness ==
    /\ pc = "diff" /\ is_stage_all
    /\ Len(staged_files) = 2

\* C9: a no to "stage all?" shows the selection over the changed paths and
\* ends nothing; an empty selection ends the run with UserCancelled, the
\* repository as it was; a selection that is not empty is added to the index
\* (unless git_add fails) and is the staged file set of the diff.
C9_SelectFiles ==
    /\ \A i \in 1..Len(obs) :
          IsAnswer(obs[i], "stage_all", "no") =>
            /\ i < Len(obs)
            /\ IsPrompt(obs[i + 1], "select_files")
            /\ obs[i + 1].arg[2] = SortedSeq(ChangedIn(obs[i - 2].arg.repo))
            /\ i + 1 = Len(obs) => pc = "select_files" /\ result = "none"
    /\ \A i \in Events(obs, "selected") :
          LET repo == obs[i - 4].arg.repo
              files == obs[i].arg
          IN  IF files = << >>
              THEN /\ Done /\ result = "UserCancelled" /\ i = Len(obs)
                   /\ idx = repo.index /\ wt = repo.worktree
              ELSE IF i = Len(obs)
              THEN Done /\ result = "Git" /\ idx = repo.index
              ELSE /\ obs[i + 1] = Event("git_add", files)
                   /\ \A j \in Events(obs, "get_diff") :
                        j > i => obs[j].arg.files = files
                   /\ pc = "diff" =>
                        /\ staged_files = files
                        /\ \A p \in Paths :
                             IF p \in Range(files)
                             THEN idx[p] \in { "new", "modified" } /\ wt[p] = "none"
                             ELSE idx[p] = repo.index[p] /\ wt[p] = repo.worktree[p]

\* One of two changed paths selected, and the diff taken
C9_Witness ==
    /\ pc = "generate"
    /\ Len(changed_files) = 2
    /\ Len(staged_files) = 1
    /\ Events(obs, "selected") # {}

-----------------------------------------------------------------------------
(* C10 *)

\* C10: when the configuration loaded has no API key and names a provider
\* other than ollama and test, the run ends with NoApiKey right after the
\* load: no prompt is assembled, no engine is constructed or called.
C10_NoApiKey ==
    \A i \in Events(obs, "Config_load") :
        (/\ obs[i].arg.api_key = "None"
         /\ to_lowercase(obs[i].arg.ai_provider) \notin { "ollama", "test" }) =>
            /\ Done /\ result = "NoApiKey" /\ i = Len(obs)
            /\ Events(obs, "get_main_commit_prompt") = {}
            /\ Events(obs, "get_engine") = {}
            /\ Events(obs, "generate_commit_message") = {}

\* NoApiKey for a provider the engine mapping does not know either
C10_Witness ==
    /\ Done /\ result = "NoApiKey"
    /\ CONFIG # None /\ CONFIG[1].ai_provider = "none"

-----------------------------------------------------------------------------
(* C11 - C13: the token budget and the messages sent *)

\* The calls of generate_commit_message on the engine of src/engine/openai.rs
OpenAiCalls ==
    { i \in Events(obs, "generate_commit_message") : obs[i - 1].arg = "openai" }

\* The messages get_main_commit_prompt assembled for the engine call at i,
\* and what the engine sends for them
AssembledFor(i) == obs[i - 2].arg
SentFor(i) ==
    SelectSeq(AssembledFor(i), LAMBDA m : m.role # "user")
    \o << Message("user", obs[i].arg.text) >>

\* max_input - max_output as a number
Budget == CONFIG[1].tokens_max_input - CONFIG[1].tokens_max_output

C12_EngineTokenCheck ==
    \A i \in OpenAiCalls :
        LET count == SumTokens(SentFor(i))
        IN  /\ count > Budget =>
                 /\ Done /\ result = "TooManyTokens" /\ detail = Some(count)
                 /\ i = Len(obs)
            /\ count = Budget =>
                 i < Len(obs) /\ obs[i + 1].ev = "request"

\* C13: the messages of a request are the assembled messages that are not
\* user messages, as they were and in their order, and then one user
\* message holding the text of the diff; no message sent holds INIT_DIFF.
C13_OutboundMessages ==
    \A i \in Events(obs, "request") :
        obs[i - 2].arg = "openai" =>
            LET sent == obs[i].arg
                assembled == obs[i - 3].arg
                kept == { k \in 1..Len(assembled) : assembled[k].role # "user" }
                n == Len(sent)
            IN  /\ n = Cardinality(kept) + 1
                /\ sent[n] = [ role |-> "user", content |-> obs[i - 1].arg.text ]
                /\ \A k \in 1..(n - 1) :
                     \E a \in kept :
                        /\ sent[k] = assembled[a]
                        /\ Cardinality({ b \in kept : b < a }) = k - 1
                /\ \A k \in 1..n : sent[k].content # INIT_DIFF

\* A request with the system message, the example answer and the diff
C13_Witness ==
    \E i \in Events(obs, "request") :
        /\ obs[i - 2].arg = "openai"
        /\ Len(obs[i].arg) = 3
        /\ obs[i].arg[1].role = "system"
        /\ obs[i].arg[2].role = "assistant"
        /\ Contains(obs[i].arg[3].content, << "a", ".rs" >>)

-----------------------------------------------------------------------------
(* C14 - C16: the engine call and its response *)

EngineCalls == Events(obs, "generate_commit_message")

\* The results that come out of the engine call
EngineErrors ==
    { "TooManyTokens", "Request", "AiProviderError", "EmptyCommitMessage", "panic" }

\* C14: the engine is invoked once in an attempt that reaches it, and sends
\* at most one request when invoked: between two engine calls lies a
\* regeneration the user accepted, between two requests lies an engine call,
\* every request follows its engine call; once an attempt has a message, and
\* when the run ends with a commit, a cancelled confirmation or an engine
\* error, the engine calls number 1 plus the accepted regenerations; an
\* engine error ends the run.
C14_OneEngineCallPerAttempt ==
    LET regenerations == Events(obs, "regenerate")
        requests == Events(obs, "request")
    IN  /\ Cardinality(EngineCalls) <= 1 + Cardinality(regenerations)
        /\ Cardinality(requests) <= Cardinality(EngineCalls)
        /\ \A i, j \in EngineCalls :
              i < j => \E k \in regenerations : i < k /\ k < j
        /\ \A i \in requests : obs[i - 1].ev = "generate_commit_message"
        /\ Cardinality(EngineCalls) = Cardinality(Events(obs, "get_engine"))
        /\ (\/ pc \in { "confirm", "ask_regenerate", "commit", "push_confirm",
                        "push_select" }
            \/ Done /\ result \in EngineErrors \cup { "Ok" }
            \/ Done /\ result = "UserCancelled"
                    /\ obs[Len(obs)].ev = "answer"
                    /\ obs[Len(obs)].arg[1] \in { "confirm", "regenerate" } \cup PushPrompts)
              => Cardinality(EngineCalls) = 1 + Cardinality(regenerations)
        /\ result \in EngineErrors =>
              /\ Done
              /\ \A i \in EngineCalls :
                    \A k \in (i + 1)..Len(obs) : obs[k].ev \in { "request", "response" }
                    \/ \E j \in EngineCalls : j > i

\* Two regenerations accepted, three engine calls, three requests
C14_Witness ==
    /\ Cardinality(Events(obs, "regenerate")) = 2
    /\ Cardinality(EngineCalls) = 3
    /\ Cardinality(Events(obs, "request")) = 3

\* C15: a response with a non-success status whose body is read ends the
\* engine call, and the run, with AiProviderError carrying the text of the
\* body; no message is returned and `git commit` is not run.
C15_AiProviderError ==
    \A i \in Events(obs, "response") :
        (obs[i].arg.kind = "status" /\ obs[i - 3].arg = "openai") =>
            /\ Done /\ result = "AiProviderError"
            /\ i = Len(obs)
            /\ detail # None /\ EndsWith(detail[1], obs[i].arg.body)
            /\ Len(detail[1]) > 0
            /\ Events(obs, "git_commit") = {}

\* AiProviderError for a response with a body
C15_Witness ==
    /\ Done /\ result = "AiProviderError"
    /\ detail = Some(<< "OpenAI error: ", "rate", "limit" >>)

\* C16: a successful response without candidates, or whose first candidate
\* is the empty text, ends the run with EmptyCommitMessage; otherwise the
\* engine returns the text of the first candidate as it is.
C16_FirstCandidate ==
    \A i \in Events(obs, "response") :
        (obs[i].arg.kind = "ok" /\ obs[i - 3].arg = "openai") =>
            LET choices == obs[i].arg.choices
            IN  IF choices = << >> \/ choices[1] = << >>
                THEN /\ Done /\ result = "EmptyCommitMessage" /\ i = Len(obs)
                     /\ Events(obs, "git_commit") = {}
                ELSE /\ i < Len(obs)
                     /\ obs[i + 1] = Event("engine_returned", choices[1])

\* The first of two candidates returned
C16_Witness ==
    \E i \in Events(obs, "engine_returned") :
        /\ obs[i - 1].ev = "response"
        /\ Len(obs[i - 1].arg.choices) = 2
        /\ obs[i].arg = << "fix:", "$msg" >>

-----------------------------------------------------------------------------
(* C17 - C20: the skipped confirmation, the push *)

\* C17: with skip_confirmation neither the confirmation prompt nor the
\* regeneration prompt is shown, and what follows the display of the
\* message is `git commit`.
C17_SkipConfirmation ==
    skip_confirmation =>
        /\ \A i \in Events(obs, "prompt") :
              obs[i].arg[1] \notin { "confirm", "regenerate" }
        /\ Events(obs, "regenerate") = {}
        /\ \A i \in Events(obs, "display") :
              IF i = Len(obs) THEN pc = "commit" ELSE obs[i + 1].ev = "git_commit"

\* A commit made without any confirmation
C17_Witness ==
    /\ skip_confirmation
    /\ Events(obs, "git_commit") # {}
    /\ Events(obs, "answer") = {}

\* C18: when `git remote` lists no remote, the run has ended without error
\* right after the commit: no push prompt is shown, `git push` is not run.
C18_NoRemotes ==
    \A i \in Events(obs, "git_remote") :
        obs[i].arg = << >> =>
            /\ Done /\ result = "Ok" /\ i = Len(obs)
            /\ obs[i - 1].ev = "git_commit"
            /\ Events(obs, "git_push") = {}
            /\ \A j \in Events(obs, "prompt") : obs[j].arg[1] \notin PushPrompts

\* A run with gitpush that found no remote
C18_Witness ==
    /\ Done /\ result = "Ok"
    /\ config # None /\ config[1].gitpush
    /\ obs[Len(obs)] = Event("git_remote", << >>)

\* C19: one remote is followed by the yes/no prompt for it, several remotes
\* by the choice among them and "don't push"; `git push` runs only after a
\* yes or after the choice of a remote, and goes to the one remote or to
\* the remote chosen, which `git remote` listed; after "don't push" it does
\* not run.
C19_PushTarget ==
    /\ \A i \in Events(obs, "git_remote") :
          LET rs == obs[i].arg
          IN  /\ Len(rs) = 1 =>
                    i < Len(obs) /\ obs[i + 1] = Event("prompt", << "push_confirm", rs >>)
              /\ Len(rs) > 1 =>
                    /\ i < Len(obs)
                    /\ obs[i + 1] = Event("prompt", << "push_select", rs \o << DontPush >> >>)
    /\ \A j \in Events(obs, "git_push") :
          LET rs == obs[j - 3].arg
              answered == obs[j - 1]
              remote == obs[j].arg.remote
          IN  /\ obs[j - 3].ev = "git_remote"
              /\ obs[j - 2].ev = "prompt"
              /\ remote \in Range(rs)
              /\ IF Len(rs) = 1
                 THEN answered = Event("answer", << "push_confirm", "yes" >>)
                 ELSE answered = Event("answer", << "push_select", remote >>)
              /\ Cardinality(Events(obs, "git_push")) = 1
    /\ \A i \in 1..Len(obs) :
          IsAnswer(obs[i], "push_select", DontPush) =>
              Done /\ i = Len(obs) /\ Events(obs, "git_push") = {}

\* A push to the second of two remotes
C19_Witness ==
    \E j \in Events(obs, "git_push") :
        /\ obs[j - 3].arg = << "origin", "upstream" >>
        /\ obs[j].arg.remote = "upstream"

\* The answers that decline a push
IsPushDeclined(e) ==
    IsAnswer(e, "push_confirm", "no") \/ IsAnswer(e, "push_select", DontPush)

IsPushDismissed(e) ==
    IsAnswer(e, "push_confirm", Dismissed) \/ IsAnswer(e, "push_select", Dismissed)

\* C20 as stated: after a push prompt that was declined or dismissed the
\* run has ended without error, `git push` not run.
C20_DeclinedOrDismissedSkips ==
    \A i \in 1..Len(obs) :
        (IsPushDeclined(obs[i]) \/ IsPushDismissed(obs[i])) =>
            /\ Done /\ result = "Ok"
            /\ Events(obs, "git_push") = {}

\* C20 amended: after a declined push prompt the run has ended without
\* error; after a dismissed push prompt it has ended with UserCancelled; in
\* both `git commit` was run before the prompt and `git push` is not run.
C20_DeclinedSkipsDismissedCancels ==
    \A i \in 1..Len(obs) :
        (IsPushDeclined(obs[i]) \/ IsPushDismissed(obs[i])) =>
            /\ Done /\ i = Len(obs)
            /\ result = IF IsPushDeclined(obs[i]) THEN "Ok" ELSE "UserCancelled"
            /\ Events(obs, "git_push") = {}
            /\ \E j \in Events(obs, "git_commit") : j < i

\* A declined push to the one remote
C20_Witness ==
    /\ Done /\ result = "Ok"
    /\ IsAnswer(obs[Len(obs)], "push_confirm", "no")
    /\ idx[2] = "none"

-----------------------------------------------------------------------------
(* C21 - C22: the push switch, a failing push *)

\* C21: in a run whose configuration has gitpush off, `git remote` and
\* `git push` are never run and no push prompt is shown: the run has ended
\* without error right after `git commit` ran.
C21_PushOnlyIfEnabled ==
    (CONFIG # None /\ ~CONFIG[1].gitpush) =>
        /\ Events(obs, "git_remote") = {}
        /\ Events(obs, "git_push") = {}
        /\ \A j \in Events(obs, "prompt") : obs[j].arg[1] \notin PushPrompts
        /\ \A i \in Events(obs, "git_commit") :
              obs[i].arg.outcome # "io" =>
                  Done /\ result = "Ok" /\ i = Len(obs)

\* A run with gitpush off that has committed
C21_Witness ==
    /\ CONFIG # None /\ ~CONFIG[1].gitpush
    /\ Done /\ result = "Ok"
    /\ obs[Len(obs)].ev = "git_commit"
    /\ obs[Len(obs)].arg.outcome = "success"

\* C22 as stated: after a `git push` that could not be run or that exited
\* with failure, the run has ended with an error, the success message of the
\* push was not shown and `git push` was run once.
C22_PushFailureSurfaced ==
    \A j \in Events(obs, "git_push") :
        obs[j].arg.outcome # "success" =>
            /\ Done /\ result \notin { "none", "Ok" }
            /\ \A k \in 1..Len(spinner) : spinner[k] # "Successfully pushed"
            /\ Cardinality(Events(obs, "git_push")) = 1

-----------------------------------------------------------------------------
(* C26: the progress indicator *)

\* An indicator that was started and neither finished nor dropped
SpinnerTicking ==
    \E i \in 1..Len(spinner) :
        spinner[i] = "start" /\ (i = Len(spinner) \/ spinner[i + 1] = "start")

-----------------------------------------------------------------------------
(* C23 - C25: the diff and the staged files *)

\* C23 as stated: the diff given to the engine shows the change of no path
\* whose name contains an entry of the lock-file and image denylist.
C23_DiffWithoutExcludedFiles ==
    \A i \in EngineCalls :
        \A p \in obs[i].arg.diff.shown :
            \A d \in DiffDenylist : ~Contains(PathNames[p], d)

\* C24: from the staging step to the commit, every path of a non-empty
\* staged file set is one the ignore rules do not match and whose index
\* entry is new or modified (in content or in type); the paths ascend
\* strictly, so the set is sorted and holds no path twice.
C24_StagedFileSet ==
    (/\ staged_files # << >>
     /\ pc \in { "diff", "generate", "confirm", "ask_regenerate", "commit" }) =>
        /\ \A p \in Range(staged_files) :
              ~Ignored(p) /\ idx[p] \in { "new", "modified", "typechange" }
        /\ \A i, j \in 1..Len(staged_files) :
              i < j => staged_files[i] < staged_files[j]

\* Two files staged by the step itself while a changed lock file, which the
\* ignore rules match, stays out
C24_Witness ==
    /\ pc = "diff"
    /\ Len(staged_files) = 2
    /\ obs[Len(obs)].ev = "git_add"
    /\ \E p \in Paths : Ignored(p) /\ wt[p] = "modified"

-----------------------------------------------------------------------------
(* C27: the cached configuration *)

\* C27: of the calls of Config::load of a run, the one of execute_commit
\* and the one of the prompt in every attempt, only the first reads the file
\* and the environment; every call returns what the first returned,
\* whatever the file and the environment hold by then, and that value is
\* the one execute_commit works with.
C27_ConfigReadOnce ==
    /\ \A i \in 1..Len(loads) :
          /\ loads[i].returned = loads[1].returned
          /\ loads[i].read <=> i = 1
    /\ loads # << >> => CONFIG = Some(loads[1].returned)
    /\ config # None => config = CONFIG

\* A call of Config::load made after the file has changed
C27_Witness ==
    \E i \in 1..Len(loads) :
        /\ i > 2
        /\ loads[i].ondisk # loads[1].ondisk
        /\ loads[i].returned = loads[1].ondisk

-----------------------------------------------------------------------------
(* C28: the test engine *)

\* The calls of the engine made for the test provider
TestCalls == { i \in EngineCalls : obs[i - 1] = Event("get_engine", "test") }

\* C28: a call of the test engine sends no request and returns a message
\* the diff text alone decides: the port message when "PORT" is in the text
\* (with or without "feat"), else the feature message when "feat" is in it,
\* else the mock message; a run with the test provider never ends with an
\* engine error.
C28_TestEngine ==
    /\ \A i \in TestCalls :
          LET text == obs[i].arg.text
              has(t) == \E k \in 1..Len(text) : text[k] = t
          IN  /\ i < Len(obs)
              /\ obs[i + 1] =
                    Event("engine_returned",
                          IF has("PORT")
                          THEN << "fix(server.ts): change port variable case from lowercase port to uppercase PORT" >>
                          ELSE IF has("feat") THEN << "feat: add new feature" >>
                          ELSE << "test(mock): test commit message" >>)
    /\ TestCalls # {} => result \notin EngineErrors

\* The test engine answered a diff that holds "PORT" and "feat" with the
\* port message
C28_Witness ==
    \E i \in TestCalls :
        /\ \E k \in 1..Len(obs[i].arg.text) : obs[i].arg.text[k] = "PORT"
        /\ \E k \in 1..Len(obs[i].arg.text) : obs[i].arg.text[k] = "feat"
        /\ obs[i + 1].arg[1] = "fix(server.ts): change port variable case from lowercase port to uppercase PORT"

-----------------------------------------------------------------------------
(* C29: the convention clause of the prompt *)

\* The three convention clauses
ConventionClauses ==
    { CONVENTIONAL_COMMIT_KEYWORDS, GITMOJI_HELP, FULL_GITMOJI_SPEC }

\* C29: the first message of every assembled prompt is the system message,
\* and of the three convention clauses it contains exactly one: the keyword
\* clause when the emoji switch is off, whatever the full-spec flag; with
\* the switch on the full legend when the flag is set and the abbreviated
\* legend when it is not.
C29_OneConventionClause ==
    \A i \in Events(obs, "get_main_commit_prompt") :
        LET system == obs[i].arg[1]
            expected ==
                IF ~CONFIG[1].emoji THEN CONVENTIONAL_COMMIT_KEYWORDS
                ELSE IF full_gitmoji_spec THEN FULL_GITMOJI_SPEC
                ELSE GITMOJI_HELP
        IN  /\ system.role = "system"
            /\ { c \in ConventionClauses : Contains(system.content, c) } = { expected }

\* A prompt assembled with the emoji switch on and the full-spec flag set
C29_Witness ==
    /\ CONFIG # None /\ CONFIG[1].emoji /\ full_gitmoji_spec
    /\ \E i \in Events(obs, "get_main_commit_prompt") :
          Contains(obs[i].arg[1].content, FULL_GITMOJI_SPEC)

-----------------------------------------------------------------------------
(* C30: the exit status *)

\* C30 as stated: a run ended by a dismissed prompt, or by a declined
\* regeneration after a declined confirmation, exits with a status that is
\* not 0; a run that exits with 0 has created the commit.
C30_CancellationExitsNonZero ==
    Done =>
        /\ (\/ \E i \in 1..Len(obs) : IsDismissal(obs[i])
            \/ /\ Len(obs) > 2
               /\ IsAnswer(obs[Len(obs)], "regenerate", "no")
               /\ IsAnswer(obs[Len(obs) - 2], "confirm", "no"))
              => exit_code(result) # 0
        /\ exit_code(result) = 0 => CommitCreated

-----------------------------------------------------------------------------
(* C31: the order of the messages of a request *)

\* The requests of the OpenAI engine
OpenAiRequests == { i \in Events(obs, "request") : obs[i - 2].arg = "openai" }

\* C31 as stated: the messages of a request are, in this order, the system
\* message, the example user message, the example assistant message and
\* the diff as the final user message.
C31_ExamplePairSent ==
    \A i \in OpenAiRequests :
        LET sent == obs[i].arg
            assembled == obs[i - 3].arg
        IN  /\ Len(sent) = 4
            /\ sent[1] = assembled[1] /\ sent[1].role = "system"
            /\ sent[2] = Message("user", INIT_DIFF)
            /\ sent[3] = assembled[3] /\ sent[3].role = "assistant"
            /\ sent[4] = Message("user", obs[i - 1].arg.text)

\* C31 amended: the assembled messages are, in this order, the system
\* message, the example user message and the example assistant message;
\* the messages of a request are, in this order, the system message, the
\* example assistant message and the diff as the final user message: the
\* example user message is assembled and left out of the request.
C31_SystemExampleAnswerDiff ==
    /\ \A i \in Events(obs, "get_main_commit_prompt") :
          /\ Len(obs[i].arg) = 3
          /\ obs[i].arg[1].role = "system"
          /\ obs[i].arg[2] = Message("user", INIT_DIFF)
          /\ obs[i].arg[3].role = "assistant"
    /\ \A i \in OpenAiRequests :
          obs[i].arg = << obs[i - 3].arg[1], obs[i - 3].arg[3],
                          Message("user", obs[i - 1].arg.text) >>

\* A request of three messages whose last message is the diff of a.rs
\* and which the engine answered with a message
C31_Witness ==
    \E i \in OpenAiRequests :
        /\ Len(obs[i].arg) = 3
        /\ obs[i].arg[3].role = "user"
        /\ obs[i].arg[3].content = obs[i - 1].arg.text
        /\ Contains(obs[i].arg[3].content, << "a", ".rs" >>)
        /\ Events(obs, "engine_returned") # {}

-----------------------------------------------------------------------------
(* C32: what precedes `git commit` *)

\* The outcomes the workflow has before it holds a message of the engine
NoMessageOutcomes ==
    { "NoStagedFiles", "NoApiKey", "InvalidConfiguration",
      "UnsupportedAiProvider" } \cup EngineErrors

\* C32: `git commit` is run right after the message was confirmed: with the
\* skip flag right after the display of the message, otherwise right after
\* the answer yes to the confirmation shown after the display; the message
\* displayed is the message of the engine after template substitution, it
\* is the message committed, and the engine returned it after the last
\* accepted regeneration. A run that has ended in NoStagedFiles, NoApiKey,
\* an engine error or a prompt-assembly error has not run `git commit`.
C32_CommitAfterConfirmedMessage ==
    /\ \A i \in Events(obs, "git_commit") :
          LET d == IF skip_confirmation THEN i - 1 ELSE i - 3
          IN  /\ d >= 2
              /\ obs[d].ev = "display"
              /\ obs[d].arg = obs[i].arg.message
              /\ obs[d - 1].ev = "engine_returned"
              /\ obs[d].arg = apply_template(extra_args, config[1], obs[d - 1].arg)
              /\ ~skip_confirmation =>
                    /\ IsPrompt(obs[i - 2], "confirm")
                    /\ IsAnswer(obs[i - 1], "confirm", "yes")
              /\ \A j \in d..i : obs[j].ev # "regenerate"
    /\ (Done /\ result \in NoMessageOutcomes) => Events(obs, "git_commit") = {}

\* `git commit` run with a message that the template changed and that the
\* user confirmed after declining an earlier one
C32_Witness ==
    \E i \in Events(obs, "git_commit") :
        /\ ~skip_confirmation
        /\ obs[i].arg.message # engine_out
        /\ Events(obs, "regenerate") # {}
        /\ IsAnswer(obs[i - 1], "confirm", "yes")

-----------------------------------------------------------------------------
(* C33: a `git commit` that fails *)

\* C33 as stated: when `git commit` could not be run or has exited
\* unsuccessfully, the run has ended with an error: no success message is
\* reported for the commit, no `git remote`, push prompt or `git push`
\* follows.
C33_CommitFailureTerminates ==
    \A i \in Events(obs, "git_commit") :
        obs[i].arg.outcome # "success" =>
            /\ Done /\ result \notin { "Ok", "none" }
            /\ i = Len(obs)
            /\ \A k \in 1..Len(spinner) : spinner[k] # "Successfully committed"

-----------------------------------------------------------------------------
(* C34: one commit and one push in a run *)

\* C34: `git commit` is run at most once and `git push` at most once,
\* whatever the number of regenerations; `git push` is run only after the
\* `git commit` of the run, and nothing is generated again after it.
C34_OneCommitOnePush ==
    /\ Cardinality(Events(obs, "git_commit")) <= 1
    /\ Cardinality(Events(obs, "git_push")) <= 1
    /\ \A j \in Events(obs, "git_push") :
          \E i \in Events(obs, "git_commit") : i < j
    /\ \A i \in Events(obs, "git_commit") :
          \A j \in i..Len(obs) :
              obs[j].ev \notin { "regenerate", "generate_commit_message" }

\* A commit and a push after the largest number of regenerations
C34_Witness ==
    /\ Cardinality(Events(obs, "regenerate")) = MaxRegen
    /\ Events(obs, "git_commit") # {}
    /\ Events(obs, "git_push") # {}

-----------------------------------------------------------------------------
(* C35: the budget subtraction *)

\* C35 as stated: the budget comparison of the engine never underflows:
\* no run ends in a panic, and with max_output above max_input, where
\* every count is above max_input - max_output, the call has failed with
\* TooManyTokens and sent no request.
C35_NoUnderflow ==
    /\ result # "panic"
    /\ \A i \in OpenAiCalls :
          Budget < 0 =>
              /\ Done /\ result = "TooManyTokens"
              /\ i = Len(obs)

-----------------------------------------------------------------------------
(* C36: the providers that need no key *)

\* C36 as stated: with a provider identifier that AiProvider::from_str maps
\* to the ollama or the test variant, a configuration without API key does
\* not end the run with NoApiKey.
C36_KeylessProvidersAgree ==
    \A i \in Events(obs, "Config_load") :
        (/\ obs[i].arg.api_key = "None"
         /\ AiProvider_from_str(obs[i].arg.ai_provider) \in { "ollama", "test" }) =>
            result # "NoApiKey"

-----------------------------------------------------------------------------
(* C37: termination *)

\* The workflow is a sequential function: as long as it has not returned,
\* its next step is taken (every prompt is answered, every subprocess and
\* request comes back). The user accepts at most MaxRegen regenerations.
LiveInit ==
    InitLocals /\ (InitIgnoreFiles \/ InitCommands \/ InitProviders
                   \/ InitBudgets \/ InitDiskChange)

LiveSpec == LiveInit /\ [][Next]_vars /\ WF_vars(Next)

\* The prompts "stage all files?" of the run
StageAllPrompts == { i \in Events(obs, "prompt") : obs[i].arg[1] = "stage_all" }

\* The stagings of every changed file: the git_add calls of a resolution
\* that runs with is_stage_all
StageAllAdds ==
    { i \in Events(obs, "git_add") : i = 1 \/ obs[i - 1].ev # "selected" }

\* The terminal outcomes: a commit (pushed or not), a cancellation, a
\* declined message, or an error
TerminalOutcomes ==
    { "Ok", "UserCancelled", "NotGitRepository", "Git", "Io", "NoStagedFiles",
      "NoApiKey" } \cup (NoMessageOutcomes \ { "none" })

\* C37: "stage all files?" is asked at most once in a run and every changed
\* file is staged at most once in a run, after the answer yes; a resolution
\* that runs with is_stage_all asks neither "stage all files?" nor for a
\* selection; every run in which at most MaxRegen regenerations are
\* accepted reaches a terminal state and stays there.
C37_Terminates ==
    /\ [](/\ Cardinality(StageAllPrompts) <= 1
          /\ Cardinality(StageAllAdds) <= 1
          /\ \A i \in StageAllAdds : IsAnswer(obs[i - 1], "stage_all", "yes")
          /\ is_stage_all => pc \notin { "ask_stage_all", "select_files" })
    /\ <>[](Done /\ result \in TerminalOutcomes)

\* A run that has ended after the stage-all restart and the largest number
\* of regenerations
C37_Witness ==
    /\ Done
    /\ \E i \in 1..Len(obs) : IsAnswer(obs[i], "stage_all", "yes")
    /\ Cardinality(Events(obs, "regenerate")) = MaxRegen

-----------------------------------------------------------------------------
(* C38: what changes the index *)

\* The step calls git_add: a git_add event is added to the log
GitAddCalled == Events(obs', "git_add") # Events(obs, "git_add")

\* C38: git_add is called only by the staging steps (the resolution that
\* runs with is_stage_all, with every changed file; the file selection,
\* with the files selected), the files it is called with are changed files
\* of the repository at that moment, and only their index entries change,
\* none is removed. Every other change of the index is the one `git commit`
\* makes when it succeeds: the answers to the confirmation, the
\* regeneration and the push prompts, cancellations and `git push` leave
\* the index as it is.
C38_IndexFrame ==
    [][ /\ GitAddCalled =>
            LET files == obs'[Len(obs')].arg
                changed == get_changed_files(wt, ocoignore)
            IN  /\ pc \in { "start", "select_files" }
                /\ obs'[Len(obs')].ev = "git_add"
                /\ files # << >>
                /\ Range(files) \subseteq Range(changed)
                /\ pc = "start" => is_stage_all /\ files = changed
                /\ pc = "select_files" =>
                      obs'[Len(obs') - 1] = Event("selected", files)
                /\ \A p \in Paths :
                      /\ p \notin Range(files) => idx'[p] = idx[p]
                      /\ p \in Range(files) => idx'[p] # "none"
        /\ (idx' # idx /\ ~GitAddCalled) =>
              /\ pc = "commit"
              /\ \E i \in Events(obs', "git_commit") :
                    i > Len(obs) /\ obs'[i].arg.outcome = "success"
      ]_vars

\* A selection of one of two changed files has been staged, and the run
\* has gone on to the commit
C38_Witness ==
    \E i \in Events(obs, "git_add") :
        /\ i > 1 /\ obs[i - 1].ev = "selected"
        /\ Len(obs[i].arg) = 1
        /\ IsPrompt(obs[i - 2], "select_files")
        /\ Len(obs[i - 2].arg[2]) = 2
        /\ Events(obs, "git_commit") # {}

-----------------------------------------------------------------------------
(* C39: the user context in the system message *)

\* The texts of the user-context clause around the text of the user
ContextMarks ==
    { "Additional context provided by the user: <context>", "</context>",
      "Consider this context" }

\* C39: without a context text (the option absent, or given empty) the
\* system message holds no part of the user-context clause; with a context
\* text it holds the text between <context> and </context>, once, and
\* nowhere else.
C39_UserContextClause ==
    \A i \in Events(obs, "get_main_commit_prompt") :
        LET content == obs[i].arg[1].content
            marks == { k \in 1..Len(content) : content[k] \in ContextMarks }
            clause == << "Additional context provided by the user: <context>" >>
                      \o context \o << "</context>" >>
        IN  /\ obs[i].arg[1].role = "system"
            /\ IF context = << >>
               THEN marks = {}
               ELSE /\ Contains(content, clause)
                    /\ Cardinality(marks) = 3
                    /\ \A k \in 1..Len(content) :
                          content[k] = context[1] =>
                              content[k - 1] = "Additional context provided by the user: <context>"

\* A system message assembled with the context "ticket 42"
C39_Witness ==
    /\ context = << "ticket", "42" >>
    /\ \E i \in Events(obs, "get_main_commit_prompt") :
          Contains(obs[i].arg[1].content, << "ticket", "42", "</context>" >>)

-----------------------------------------------------------------------------
(* The `config set` command: handle_config_command of                      *)
(* src/commands/config.rs                                                   *)

\* Config::default with the fields the workflow does not read
FullConfig_default ==
    [ api_key |-> "None",
      tokens_max_input |-> 40960,
      tokens_max_output |-> 4096,
      description |-> FALSE,
      emoji |-> FALSE,
      model |-> "gpt-4o-mini",
      language |-> "en",
      message_template_placeholder |-> << "$msg" >>,
      prompt_module |-> "conventional-commit",
      ai_provider |-> "openai",
      one_line_commit |-> FALSE,
      api_url |-> "None",
      gitpush |-> TRUE,
      why |-> FALSE ]

\* The names ConfigKey::from_str knows
ConfigKeys ==
    { "OCO_API_KEY", "OCO_TOKENS_MAX_INPUT", "OCO_TOKENS_MAX_OUTPUT",
      "OCO_DESCRIPTION", "OCO_EMOJI", "OCO_MODEL", "OCO_LANGUAGE",
      "OCO_MESSAGE_TEMPLATE_PLACEHOLDER", "OCO_PROMPT_MODULE",
      "OCO_AI_PROVIDER", "OCO_ONE_LINE_COMMIT", "OCO_API_URL", "OCO_GITPUSH",
      "OCO_WHY" }

\* str::to_uppercase on the key texts of KeyValueTexts
to_uppercase(s) == IF s = "oco_gitpush" THEN "OCO_GITPUSH" ELSE s

\* kv.splitn(2, '='): the text cut at its first "=", or the text alone
splitn2(kv) ==
    LET eqs == { k \in 1..Len(kv) : kv[k] = "=" }
    IN  IF eqs = {} THEN << kv >>
        ELSE LET k == CHOOSE e \in eqs : \A f \in eqs : e <= f
             IN  << SubSeq(kv, 1, k - 1), SubSeq(kv, k + 1, Len(kv)) >>

\* ConfigKey::from_str: the key, or "" for "Unknown config key"
ConfigKey_from_str(s) ==
    IF Len(s) = 1 /\ to_uppercase(s[1]) \in ConfigKeys
    THEN to_uppercase(s[1]) ELSE ""

\* str::parse::<usize> on the numerals of KeyValueTexts: << n >>, or << >>
\* for Err
parse_usize(value) ==
    IF value = << "5" >> THEN << 5 >>
    ELSE IF value = << "10" >> THEN << 10 >>
    ELSE << >>

\* str::parse::<bool>: << b >>, or << >> for Err
parse_bool(value) ==
    IF value = << "true" >> THEN << TRUE >>
    ELSE IF value = << "false" >> THEN << FALSE >>
    ELSE << >>

\* A value of one token is that token; AiProvider::from_str knows no text
\* of several tokens
as_str(value) == IF Len(value) = 1 THEN value[1] ELSE ""

\* validate_config: "" for Ok(value), else the Error variant
validate_config(key, value) ==
    CASE key = "OCO_API_KEY" ->
           IF value = << >> THEN "InvalidConfiguration" ELSE ""
      [] key \in { "OCO_TOKENS_MAX_INPUT", "OCO_TOKENS_MAX_OUTPUT" } ->
           IF parse_usize(value) = << >> THEN "InvalidConfiguration" ELSE ""
      [] key \in { "OCO_DESCRIPTION", "OCO_EMOJI", "OCO_ONE_LINE_COMMIT",
                   "OCO_GITPUSH", "OCO_WHY" } ->
           IF parse_bool(value) = << >> THEN "InvalidConfiguration" ELSE ""
      [] key \in { "OCO_MODEL", "OCO_LANGUAGE" } -> ""
      [] key = "OCO_MESSAGE_TEMPLATE_PLACEHOLDER" ->
           IF value # << >> /\ value[1] \in { "$", "$msg" }
           THEN "" ELSE "InvalidConfiguration"
      [] key = "OCO_PROMPT_MODULE" ->
           IF value \in { << "conventional-commit" >>, << "@commitlint" >> }
           THEN "" ELSE "InvalidConfiguration"
      [] key = "OCO_AI_PROVIDER" ->
           IF AiProvider_from_str(as_str(value)) = ""
           THEN "UnsupportedAiProvider" ELSE ""
      [] key = "OCO_API_URL" ->
           IF value # << >> /\ value[1] \in { "http://", "https://" }
           THEN "" ELSE "InvalidConfiguration"

\* Config::default_model_for_provider
default_model_for_provider(provider) ==
    LET p == to_lowercase(provider)
    IN  CASE p = "openai" -> "gpt-4o-mini"
          [] p = "anthropic" -> "claude-3-5-sonnet-20240620"
          [] p = "gemini" -> "gemini-1.5-flash"
          [] p = "groq" -> "llama3-70b-8192"
          [] p = "mistral" -> "mistral-small-latest"
          [] p = "deepseek" -> "deepseek-chat"
          [] p = "ollama" -> "mistral"
          [] OTHER -> "gpt-4o-mini"

\* Lines 513-535: the assignment for one validated pair
update_config(cfg, key, value) ==
    CASE key = "OCO_API_KEY" -> [ cfg EXCEPT !.api_key = "Some" ]
      [] key = "OCO_TOKENS_MAX_INPUT" ->
           [ cfg EXCEPT !.tokens_max_input = parse_usize(value)[1] ]
      [] key = "OCO_TOKENS_MAX_OUTPUT" ->
           [ cfg EXCEPT !.tokens_max_output = parse_usize(value)[1] ]
      [] key = "OCO_DESCRIPTION" -> [ cfg EXCEPT !.description = parse_bool(value)[1] ]
      [] key = "OCO_EMOJI" -> [ cfg EXCEPT !.emoji = parse_bool(value)[1] ]
      [] key = "OCO_MODEL" -> [ cfg EXCEPT !.model = as_str(value) ]
      [] key = "OCO_LANGUAGE" -> [ cfg EXCEPT !.language = as_str(value) ]
      [] key = "OCO_MESSAGE_TEMPLATE_PLACEHOLDER" ->
           [ cfg EXCEPT !.message_template_placeholder = value ]
      [] key = "OCO_PROMPT_MODULE" -> [ cfg EXCEPT !.prompt_module = as_str(value) ]
      [] key = "OCO_AI_PROVIDER" ->
           [ cfg EXCEPT !.ai_provider = as_str(value),
                        !.model =
                            IF @ \in { "", "gpt-4o-mini", "claude-3-5-sonnet-20240620" }
                            THEN default_model_for_provider(as_str(value))
                            ELSE @ ]
      [] key = "OCO_ONE_LINE_COMMIT" ->
           [ cfg EXCEPT !.one_line_commit = parse_bool(value)[1] ]
      [] key = "OCO_API_URL" -> [ cfg EXCEPT !.api_url = "Some" ]
      [] key = "OCO_GITPUSH" -> [ cfg EXCEPT !.gitpush = parse_bool(value)[1] ]
      [] key = "OCO_WHY" -> [ cfg EXCEPT !.why = parse_bool(value)[1] ]

\* Lines 504-510: "" when the pair splits, names a key and validates, else
\* the Error variant the loop returns
pair_error(kv) ==
    LET parts == splitn2(kv)
    IN  IF Len(parts) # 2 THEN "InvalidConfiguration"
        ELSE IF ConfigKey_from_str(parts[1]) = "" THEN "InvalidConfiguration"
        ELSE validate_config(ConfigKey_from_str(parts[1]), parts[2])

RECURSIVE set_pairs(_, _)
\* Lines 503-536: the loop over key_values on the local copy of the
\* configuration; it stops at the first pair that fails
set_pairs(cfg, kvs) ==
    IF kvs = << >> THEN [ err |-> "", config |-> cfg ]
    ELSE IF pair_error(Head(kvs)) # "" THEN [ err |-> pair_error(Head(kvs)), config |-> cfg ]
    ELSE LET parts == splitn2(Head(kvs))
         IN  set_pairs(update_config(cfg, ConfigKey_from_str(parts[1]), parts[2]),
                       Tail(kvs))

\* Config::save: the file holds the configuration, and so does the cache
Config_save(cfg) == [ disk |-> cfg, CONFIG |-> Some(cfg) ]

\* Mutant of set_failed: the pairs applied before the failing one are saved
set_failed_SavesPartial(loaded, ondisk, partial) == Config_save(partial)

\* Lines 506, 509 and 510: the return from inside the loop; the local copy
\* is dropped, the file and the cache hold what Config::load left
set_failed(loaded, ondisk, partial) == [ disk |-> ondisk, CONFIG |-> Some(loaded) ]

\* handle_config_command, ConfigAction::Set
ConfigSet ==
    /\ pc = "config_set"
    /\ pc' = "done"
    /\ detail' = None
    /\ \/ \* Config::load fails: the file cannot be read
          /\ CONFIG = None
          /\ result' = "Io"
          /\ UNCHANGED << CONFIG, disk >>
       \/ LET loaded == Config_load(CONFIG, disk)
              r == set_pairs(loaded, key_values)
          IN  IF r.err # ""
              THEN /\ result' = r.err
                   /\ CONFIG' = set_failed(loaded, disk, r.config).CONFIG
                   /\ disk' = set_failed(loaded, disk, r.config).disk
              ELSE \/ /\ result' = "Ok"
                      /\ CONFIG' = Config_save(r.config).CONFIG
                      /\ disk' = Config_save(r.config).disk
                   \/ \* Config::save fails before the file is written
                      /\ result' = "Io"
                      /\ CONFIG' = Some(loaded)
                      /\ UNCHANGED disk
    /\ UNCHANGED << is_stage_all, skip_confirmation, extra_args, key_values, context,
                    full_gitmoji_spec, overflow_checks, idx, wt, ocoignore,
                    staged_files, changed_files, diff, config, engine_out,
                    commit_message, remotes, spinner, disk_later, loads, obs >>

\* The KEY=VALUE texts: pairs that are set, a key in lower case, a value
\* with "=" in it, and pairs that fail: no "=", an unknown key, an empty
\* key, values that do not validate
KeyValueTexts ==
    { << "OCO_EMOJI", "=", "true" >>,
      << "oco_gitpush", "=", "false" >>,
      << "OCO_TOKENS_MAX_INPUT", "=", "5" >>,
      << "OCO_AI_PROVIDER", "=", "ollama" >>,
      << "OCO_API_KEY", "=", "sk", "=", "1" >>,
      << "OCO_EMOJI" >>,
      << "OCO_COLOR", "=", "true" >>,
      << "=", "true" >>,
      << "OCO_TOKENS_MAX_OUTPUT", "=", "ten" >>,
      << "OCO_AI_PROVIDER", "=", "none" >>,
      << "OCO_API_KEY", "=" >>,
      << "OCO_MESSAGE_TEMPLATE_PLACEHOLDER", "=", "msg" >> }

RECURSIVE Lists(_, _)
\* The sequences over S of length n or less
Lists(S, n) ==
    IF n = 0 THEN { << >> }
    ELSE LET shorter == Lists(S, n - 1)
         IN  shorter \cup { Append(l, x) : l \in shorter, x \in S }

\* The configurations of the file: the default, and one with a model of
\* its own
SetConfigs ==
    { FullConfig_default,
      [ FullConfig_default EXCEPT !.model = "my-model", !.emoji = TRUE ] }

\* `config set` with MaxPairs arguments or less; the cache is empty, or
\* holds what a migration loaded from the file
SetInit ==
    /\ pc = "config_set"
    /\ key_values \in Lists(KeyValueTexts, MaxPairs)
    /\ disk \in SetConfigs
    /\ CONFIG \in { None, Some(disk) }
    /\ result = "none"
    /\ detail = None
    /\ is_stage_all = FALSE
    /\ skip_confirmation = FALSE
    /\ extra_args = << >>
    /\ context = << >>
    /\ full_gitmoji_spec = FALSE
    /\ overflow_checks = FALSE
    /\ idx = [ p \in Paths |-> "none" ]
    /\ wt = [ p \in Paths |-> "none" ]
    /\ ocoignore = << >>
    /\ staged_files = << >>
    /\ changed_files = << >>
    /\ diff = None
    /\ config = None
    /\ engine_out = << >>
    /\ commit_message = << >>
    /\ remotes = << >>
    /\ spinner = << >>
    /\ disk_later = None
    /\ loads = << >>
    /\ obs = << >>

SetNext == ConfigSet

SetSpec == SetInit /\ [][SetNext]_vars

\* C40: when a pair of `config set` has no "=", names no known key or does
\* not validate, the command returns the error, the file is as it was, and
\* the cache holds no value of the command: it is as it was, or it holds the
\* configuration of the file that Config::load read; Config::load returns
\* what it returned before. This holds wherever the failing pair stands.
C40_SetAllOrNothing ==
    [][ (/\ pc = "config_set"
         /\ \E k \in 1..Len(key_values) : pair_error(key_values[k]) # "")
        => /\ result' \in { "InvalidConfiguration", "UnsupportedAiProvider", "Io" }
           /\ disk' = disk
           /\ CONFIG' \in { CONFIG, Some(disk) }
           /\ Config_load(CONFIG', disk') = Config_load(CONFIG, disk)
      ]_vars

\* `config set OCO_EMOJI=true OCO_EMOJI` has failed at its second pair, and
\* neither the file nor the cache holds the emoji switch of the first
C40_Witness ==
    /\ pc = "done" /\ result = "InvalidConfiguration"
    /\ key_values = << << "OCO_EMOJI", "=", "true" >>, << "OCO_EMOJI" >> >>
    /\ ~disk.emoji
    /\ CONFIG # None /\ ~CONFIG[1].emoji

====
